---- MODULE Spec2Model ----
(***************************************************************************)
(* A model of the OpenClaudia core: the hook engine (hooks.rs), the        *)
(* context compactor (compaction.rs), the MCP stdio client (mcp.rs), the   *)
(* archival and core memory store (memory.rs), the session manager         *)
(* (session.rs) and the context injector (context.rs).                     *)
(* Each subsystem has its own variables, actions and specification; a      *)
(* specification leaves the variables of the other subsystems untouched.   *)
(***************************************************************************)
EXTENDS Integers, Sequences, FiniteSets, TLC

VARIABLES
    \* ---- hook engine (hooks.rs) ----
    config,     \* HooksConfig: config field -> list of entries
    event,      \* the event of the run
    input,      \* HookInput: [tool_name, prompt]
    runpc,      \* position of HookEngine::run: "idle", "joining", "returned"
    hookRes,    \* join_all's result slots, one per hook of hooks_to_run
    completed,  \* history: indices of the hooks in the order they completed
    child,      \* per hook: the state of its child process
    result,     \* the HookResult that run returned
    \* ---- context compactor (compaction.rs) ----
    ccfg,       \* CompactionConfig of the compactor
    request,    \* the caller's request: its message list
    before,     \* history: the message list when compact was called
    cres,       \* what compact returned: [tag |-> "none"] before the call
    hook_engine, \* compact's hook_engine argument and what its hook does
    hook_runs,  \* history: the number of engine.run calls compact has made
    again,      \* a second compact on the same request: what it found and returned
    \* ---- MCP stdio transport (mcp.rs) ----
    request_id, \* StdioTransport.request_id: the next id
    childLock,  \* the caller holding the mutex around child, or Unlocked
    requests,   \* per caller: position in request, its id, line read, result
    child_stdin,  \* ids of the requests written to the server, unanswered
    child_stdout, \* response lines written by the server and not yet read
    serverUp,   \* whether the server process is running
    written,    \* history: the ids of the requests written to the server so far
    abandoned,  \* history: "yes" once a call was abandoned after its write,
                \* "recovered" once a call has read its own response since,
                \* "no" before
    quiet,      \* the id of the request the server sends no response to, or 0
    \* ---- archival memory (memory.rs) ----
    archival_memory, \* table archival_memory: id -> [content, tags]
    fts,        \* archival_memory_fts: postings <<rowid, column, token>>
    next_rowid, \* AUTOINCREMENT: the id of the next inserted row
    unindexed,  \* history: the <<id, token>> the last change took off the table
    memOp,      \* the last operation and what it returned
    saved_ids,  \* history: the ids returned by memory_save, in call order
    core_memory, \* table core_memory: section -> content
    reset,      \* position of reset_all in its batch, and the tables before it
    \* ---- session manager (session.rs) ----
    persist_dir,     \* the files of the persistence directory
    current_session, \* SessionManager.current_session
    next_uuid,       \* the id the next Uuid::new_v4 yields
    last_ended,      \* history: id of the session ended last
    latest_writer,   \* history: id of the last session written to latest.json
    sessionRet,      \* the last operation and the session it returned
    cleaned,         \* the last cleanup_old_sessions: its argument and the directory before it
    \* ---- MCP servers and manager (mcp.rs) ----
    servers,    \* McpManager.servers: name -> server record, or no record
    children,   \* per server name: the state of its stdio child process
    sent,       \* per server name: the requests the current call has sent
    mop,        \* the manager operation under way or last returned
    mnew,       \* the McpServer::new under way or last returned
    \* ---- context injector (context.rs) ----
    ctx_messages, \* request.messages, the list the injector changes
    ctx_before,   \* history: the messages before the injector was called
    ctx_call      \* the injector function called, and its argument

hookVars == <<config, event, input, runpc, hookRes, completed, child, result>>
compactVars == <<ccfg, request, before, cres, hook_engine, hook_runs, again>>

mcpVars == <<request_id, childLock, requests, child_stdin, child_stdout,
             serverUp, written, abandoned, quiet>>
coreVars == <<core_memory, reset>>
memoryVars == <<archival_memory, fts, next_rowid, unindexed, memOp, saved_ids,
                coreVars>>
sessionVars == <<persist_dir, current_session, next_uuid, last_ended,
                 latest_writer, sessionRet, cleaned>>

managerVars == <<servers, children, sent, mop>>
connectVars == <<mnew>>
contextVars == <<ctx_messages, ctx_before, ctx_call>>

notHookVars == <<compactVars, mcpVars, memoryVars, sessionVars, managerVars, connectVars,
    contextVars>>
notCompactVars == <<hookVars, mcpVars, memoryVars, sessionVars, managerVars, connectVars,
    contextVars>>
notMcpVars == <<hookVars, compactVars, memoryVars, sessionVars, managerVars, connectVars,
    contextVars>>
notMemoryVars == <<hookVars, compactVars, mcpVars, sessionVars, managerVars, connectVars,
    contextVars>>
notSessionVars == <<hookVars, compactVars, mcpVars, memoryVars, managerVars, connectVars,
    contextVars>>
notManagerVars == <<hookVars, compactVars, mcpVars, memoryVars, sessionVars, connectVars,
    contextVars>>
notContextVars == <<hookVars, compactVars, mcpVars, memoryVars, sessionVars,
    managerVars, connectVars>>

notConnectVars == <<hookVars, compactVars, mcpVars, memoryVars, sessionVars,
    contextVars>>

vars == <<hookVars, compactVars, mcpVars, memoryVars, sessionVars, managerVars,
         connectVars, contextVars>>

\* The lists over a set, up to a length.
RECURSIVE ListsUpTo(_, _)
ListsUpTo(S, n) ==
    IF n = 0 THEN {<<>>}
    ELSE ListsUpTo(S, n - 1) \cup
         {Append(l, x) : l \in {k \in ListsUpTo(S, n - 1) : Len(k) = n - 1},
                         x \in S}

\* Option::None of the source.
None == "<none>"

(***************************************************************************)
(*                          HOOK ENGINE (hooks.rs)                         *)
(***************************************************************************)

\* Bound: the number of hooks configured for one event, over all its entries.
MaxHooks == 2

HookEvent ==
    {"session_start", "session_end", "pre_tool_use", "post_tool_use",
     "post_tool_use_failure", "user_prompt_submit", "stop", "subagent_start",
     "subagent_stop", "pre_compact", "permission_request", "notification"}

\* The fields of HooksConfig that get_entries_for_event reads.
ConfigFields ==
    {"session_start", "session_end", "pre_tool_use", "post_tool_use",
     "user_prompt_submit", "stop"}

\* The keys of a hooks configuration: one list of entries per event kind.
HooksConfigKeys == HookEvent

\* HookEvent::config_key: the event names above are the config keys.
config_key(e) == e

\* Matcher patterns: the empty pattern, an invalid regex, and a valid one.
Patterns == {"", "[", "Write|Edit"}
Matchers == {None} \cup Patterns
ToolNames == {"Write", "Bash"}

\* Regex::new(pattern): the pattern compiles.
RegexValid(pattern) == pattern # "["

\* Regex::is_match(context) for the patterns and contexts of the model.
RegexIsMatch(pattern, context) ==
    CASE pattern = "Write|Edit" -> context \in {"Write", "Edit"}
      [] OTHER -> FALSE

\* The decisions a hook's JSON output may carry (None: no decision field).
Decisions == {None, "allow", "ask", "deny", "block"}
ExitCodes == {0, 1, 2}
HookTimeouts == {30}

\* What a command hook's child writes to stdout.
Stdouts ==
    {[kind |-> "empty", decision |-> None], [kind |-> "garbage", decision |-> None]}
    \cup [kind : {"json"}, decision : Decisions]

\* What a child does: its exit code and its stdout. Every stdout with exit
\* code 0, and the other exit codes with no output or with an "allow".
CommandBehaviours ==
    [exit_code : {0}, stdout : Stdouts]
    \cup [exit_code : ExitCodes,
          stdout : {[kind |-> "empty", decision |-> None],
                    [kind |-> "json", decision |-> "allow"]}]

\* HookOutput::default().
DefaultOutput == [decision |-> None, system_message |-> None]

HookKinds == {"command", "prompt"}
Hooks == [kind : HookKinds, timeout : HookTimeouts]

\* HookResult::allowed().
HookResultAllowed == [allowed |-> TRUE, outputs |-> <<>>, errors |-> <<>>]

Pending == [tag |-> "pending"]
OkRes(output, code) == [tag |-> "ok", output |-> output, exit_code |-> code]
ErrRes(kind, secs) == [tag |-> "err", error |-> [kind |-> kind, secs |-> secs]]

\* get_entries_for_event: six events read a config field, the others get none.
get_entries_for_event(cfg, e) ==
    IF e \in ConfigFields THEN cfg[e] ELSE <<>>

\* get_matcher_context: the tool name, else the prompt, else the event key.
get_matcher_context(inp, e) ==
    IF inp.tool_name # None THEN inp.tool_name
    ELSE IF inp.prompt # None THEN inp.prompt
    ELSE config_key(e)

\* validate_and_match: Err for an empty or invalid pattern, else Ok(is_match).
validate_and_match(pattern, context) ==
    IF pattern = "" THEN [ok |-> FALSE, matched |-> FALSE]
    ELSE IF RegexValid(pattern)
         THEN [ok |-> TRUE, matched |-> RegexIsMatch(pattern, context)]
         ELSE [ok |-> FALSE, matched |-> FALSE]

\* A matches_entry that lets an entry through when its matcher is in error.
matches_entry_ErrMatches(entry, context) ==
    IF entry.matcher = None THEN TRUE
    ELSE LET r == validate_and_match(entry.matcher, context)
         IN  IF r.ok THEN r.matched ELSE TRUE

\* matches_entry: no matcher always matches; a matcher error is "no match".
matches_entry(entry, context) ==
    IF entry.matcher = None THEN TRUE
    ELSE LET r == validate_and_match(entry.matcher, context)
         IN  IF r.ok THEN r.matched ELSE FALSE

MatchingEntries(cfg, e, inp) ==
    SelectSeq(get_entries_for_event(cfg, e),
              LAMBDA entry : matches_entry(entry, get_matcher_context(inp, e)))

RECURSIVE FlattenHooks(_)
FlattenHooks(es) ==
    IF es = <<>> THEN <<>> ELSE Head(es).hooks \o FlattenHooks(Tail(es))

\* hooks_to_run of run: the hooks of the matching entries, in entry order.
HooksToRun == FlattenHooks(MatchingEntries(config, event, input))

\* parse_hook_output: blank stdout is the default output, JSON is parsed,
\* anything else is a ParseError.
parse_hook_output(stdout) ==
    CASE stdout.kind = "empty" -> [ok |-> TRUE, output |-> DefaultOutput]
      [] stdout.kind = "json" ->
            [ok |-> TRUE,
             output |-> [decision |-> stdout.decision, system_message |-> None]]
      [] OTHER -> [ok |-> FALSE, output |-> DefaultOutput]

\* The Ok(Ok(output)) arm of run_command_hook: a parse failure yields the
\* default output; the exit code is passed through.
CommandCompleted(stdout, code) ==
    LET p == parse_hook_output(stdout)
    IN  OkRes(IF p.ok THEN p.output ELSE DefaultOutput, code)

\* The Hook::Prompt arm of run_hook.
PromptCompleted == OkRes([decision |-> None, system_message |-> "prompt"], 0)

\* MergeOne with the exit code left out of the blocking test.
MergeOne_NoExitCode(acc, i, r) ==
    IF r.tag = "ok"
    THEN [allowed |-> acc.allowed /\ r.output.decision \notin {"deny", "block"},
          outputs |-> Append(acc.outputs,
                             [hook |-> i, decision |-> r.output.decision,
                              system_message |-> r.output.system_message]),
          errors  |-> acc.errors]
    ELSE [allowed |-> acc.allowed,
          outputs |-> acc.outputs,
          errors  |-> Append(acc.errors,
                             [hook |-> i, kind |-> r.error.kind,
                              secs |-> r.error.secs])]

\* MergeOne failing closed: a hook error clears the allowed flag.
MergeOne_FailClosed(acc, i, r) ==
    IF r.tag = "ok"
    THEN [allowed |-> acc.allowed
                      /\ r.exit_code # 2
                      /\ r.output.decision \notin {"deny", "block"},
          outputs |-> Append(acc.outputs,
                             [hook |-> i, decision |-> r.output.decision,
                              system_message |-> r.output.system_message]),
          errors  |-> acc.errors]
    ELSE [allowed |-> FALSE,
          outputs |-> acc.outputs,
          errors  |-> Append(acc.errors,
                             [hook |-> i, kind |-> r.error.kind,
                              secs |-> r.error.secs])]

\* MergeOne keeping no output of a hook that blocks with exit code 2.
MergeOne_DropBlocking(acc, i, r) ==
    IF r.tag = "ok"
    THEN [allowed |-> acc.allowed
                      /\ r.exit_code # 2
                      /\ r.output.decision \notin {"deny", "block"},
          outputs |-> IF r.exit_code = 2 THEN acc.outputs
                      ELSE Append(acc.outputs,
                                  [hook |-> i, decision |-> r.output.decision,
                                   system_message |-> r.output.system_message]),
          errors  |-> acc.errors]
    ELSE [allowed |-> acc.allowed,
          outputs |-> acc.outputs,
          errors  |-> Append(acc.errors,
                             [hook |-> i, kind |-> r.error.kind,
                              secs |-> r.error.secs])]

\* One iteration of the merge loop of run (the hook index i is kept with each
\* output and error so that the order of the lists can be observed).
MergeOne(acc, i, r) ==
    IF r.tag = "ok"
    THEN [allowed |-> acc.allowed
                      /\ r.exit_code # 2
                      /\ r.output.decision \notin {"deny", "block"},
          outputs |-> Append(acc.outputs,
                             [hook |-> i, decision |-> r.output.decision,
                              system_message |-> r.output.system_message]),
          errors  |-> acc.errors]
    ELSE [allowed |-> acc.allowed,
          outputs |-> acc.outputs,
          errors  |-> Append(acc.errors,
                             [hook |-> i, kind |-> r.error.kind,
                              secs |-> r.error.secs])]

RECURSIVE MergeFrom(_, _, _)
MergeFrom(acc, results, i) ==
    IF i > Len(results) THEN acc
    ELSE MergeFrom(MergeOne(acc, i, results[i]), results, i + 1)

RECURSIVE MergeInOrder(_, _, _)
MergeInOrder(acc, results, order) ==
    IF order = <<>> THEN acc
    ELSE MergeInOrder(MergeOne(acc, Head(order), results[Head(order)]),
                      results, Tail(order))

\* MergeResults taking the results in the order of completion.
MergeResults_ByCompletion(results) ==
    MergeInOrder(HookResultAllowed, results, completed)

\* The merge loop of run over join_all's results, which are in the order of
\* hooks_to_run.
MergeResults(results) == MergeFrom(HookResultAllowed, results, 1)

\* The first poll of join_all: every future runs up to its first suspension.
\* A prompt hook completes at once; a command hook spawns its child (the
\* spawn may fail: CommandFailed) and then waits for it.
FirstPoll(hooks, spawnFail) ==
    [i \in 1..Len(hooks) |->
        IF hooks[i].kind = "prompt" THEN PromptCompleted
        ELSE IF i \in spawnFail THEN ErrRes("CommandFailed", 0)
        ELSE Pending]

RECURSIVE DoneAtFirstPoll(_, _)
DoneAtFirstPoll(res, i) ==
    IF i > Len(res) THEN <<>>
    ELSE (IF res[i].tag # "pending" THEN <<i>> ELSE <<>>) \o DoneAtFirstPoll(res, i + 1)

\* run, up to the await of join_all (lines 230-274).
RunStart ==
    /\ runpc = "idle"
    /\ IF HooksToRun = <<>>
       THEN /\ runpc' = "returned"
            /\ result' = HookResultAllowed
            /\ UNCHANGED <<hookRes, completed, child>>
       ELSE \E spawnFail \in SUBSET {i \in 1..Len(HooksToRun) : HooksToRun[i].kind = "command"} :
            LET res == FirstPoll(HooksToRun, spawnFail) IN
            /\ hookRes' = res
            /\ completed' = DoneAtFirstPoll(res, 1)
            /\ child' = [i \in 1..Len(HooksToRun) |->
                            IF res[i].tag = "pending" THEN "running" ELSE "none"]
            /\ runpc' = "joining"
            /\ UNCHANGED result
    /\ UNCHANGED <<config, event, input>>

\* The child of hook i exits within the timeout and wait_with_output returns
\* its status and stdout (run_command_hook, arm Ok(Ok(output))).
HookExit(i) ==
    /\ runpc = "joining"
    /\ i \in DOMAIN hookRes
    /\ hookRes[i].tag = "pending"
    /\ \E b \in CommandBehaviours :
          hookRes' = [hookRes EXCEPT ![i] = CommandCompleted(b.stdout, b.exit_code)]
    /\ child' = [child EXCEPT ![i] = "exited"]
    /\ completed' = Append(completed, i)
    /\ UNCHANGED <<config, event, input, runpc, result>>

\* wait_with_output fails with an IO error (arm Ok(Err(e))).
HookWaitFail(i) ==
    /\ runpc = "joining"
    /\ i \in DOMAIN hookRes
    /\ hookRes[i].tag = "pending"
    /\ hookRes' = [hookRes EXCEPT ![i] = ErrRes("CommandFailed", 0)]
    /\ completed' = Append(completed, i)
    /\ UNCHANGED <<config, event, input, runpc, result, child>>

\* What the timeout arm does to the child: the wait future, which owns the
\* Child, is dropped; the Command was built without kill_on_drop, so the
\* process keeps running.
ChildAfterTimeout(c) == c

\* The per-hook timeout elapses first (arm Err(_)): Timeout(timeout_secs).
HookTimeout(i) ==
    /\ runpc = "joining"
    /\ i \in DOMAIN hookRes
    /\ hookRes[i].tag = "pending"
    /\ hookRes' = [hookRes EXCEPT ![i] = ErrRes("Timeout", HooksToRun[i].timeout)]
    /\ child' = [child EXCEPT ![i] = ChildAfterTimeout(child[i])]
    /\ completed' = Append(completed, i)
    /\ UNCHANGED <<config, event, input, runpc, result>>

\* A child that outlived its hook exits on its own.
OrphanExit(i) ==
    /\ i \in DOMAIN child
    /\ child[i] = "running"
    /\ i \in DOMAIN hookRes => hookRes[i].tag # "pending"
    /\ child' = [child EXCEPT ![i] = "exited"]
    /\ UNCHANGED <<config, event, input, runpc, result, hookRes, completed>>

\* join_all returns once every future has completed; run merges the results
\* and returns (lines 274-305). hookRes is kept as the record of what each
\* hook returned.
RunJoin ==
    /\ runpc = "joining"
    /\ \A i \in DOMAIN hookRes : hookRes[i].tag # "pending"
    /\ result' = MergeResults(hookRes)
    /\ runpc' = "returned"
    /\ UNCHANGED <<config, event, input, hookRes, completed, child>>

\* Entry lists with at most n hooks in total, each entry with at least one.
RECURSIVE EntryLists(_)
EntryLists(n) ==
    IF n = 0 THEN {<<>>}
    ELSE {<<>>} \cup
         UNION { { <<[matcher |-> m, hooks |-> hs]>> \o rest :
                     m \in Matchers, hs \in [1..k -> Hooks], rest \in EntryLists(n - k) }
                 : k \in 1..n }

HookInputs == [tool_name : ToolNames, prompt : {None}]

\* The events of the runs, and the events that are given entries: one that
\* get_entries_for_event reads from the config and one that it does not.
RunEvents == {"pre_tool_use", "pre_compact"}

InitHookEngine ==
    /\ event \in RunEvents
    /\ \E es \in EntryLists(MaxHooks), key \in RunEvents :
          config = [k \in HooksConfigKeys |-> IF k = key THEN es ELSE <<>>]
    /\ input \in HookInputs
    /\ runpc = "idle"
    /\ hookRes = <<>>
    /\ completed = <<>>
    /\ child = <<>>
    /\ result = HookResultAllowed

\* The hook indices of a list of outputs or errors, in list order.
HookIndices(list) == [k \in 1..Len(list) |-> list[k].hook]

\* The blocking test of the merge rule on one hook result.
Blocks(r) ==
    /\ r.tag = "ok"
    /\ \/ r.exit_code = 2
       \/ r.output.decision \in {"deny", "block"}

\* The hook engine before any run, with one command hook configured for
\* pre_compact: its state in the specifications of the other subsystems.
HookEngineAtRest ==
    /\ event = "pre_compact"
    /\ config = [k \in HooksConfigKeys |->
                    IF k = "pre_compact"
                    THEN <<[matcher |-> None,
                            hooks |-> <<[kind |-> "command", timeout |-> 30]>>]>>
                    ELSE <<>>]
    /\ input = [tool_name |-> None, prompt |-> None]
    /\ runpc = "idle"
    /\ hookRes = <<>>
    /\ completed = <<>>
    /\ child = <<>>
    /\ result = HookResultAllowed

(***************************************************************************)
(*                    CONTEXT COMPACTOR (compaction.rs)                    *)
(***************************************************************************)

\* Bound: the number of messages of the request.
MaxMsgs == 3

RESPONSE_RESERVE == 4096

Roles == {"system", "user", "assistant", "tool"}

\* A text is known by its number of characters and of whitespace-separated
\* words. The message contents of the model are single words, like the
\* "x".repeat(n) fillers of the tests of compaction.rs.
Text(chars, words) == [chars |-> chars, words |-> words]
ShortText == Text(2, 1)
LongText == Text(2000, 1)

\* One serialized tool call (c.to_string(): compact JSON, no whitespace).
ToolCallText == Text(82, 1)

\* ChatMessage; name is None throughout. tool_calls: Some(one call) or None;
\* tool_call_id: Some or None.
Msg(role, content, calls, call_id) ==
    [role |-> role, content |-> content, tool_calls |-> calls, tool_call_id |-> call_id]

MessageShapes ==
    {Msg(r, c, FALSE, FALSE) : r \in {"system", "user", "assistant"},
                               c \in {ShortText, LongText}}
    \cup {Msg("assistant", ShortText, TRUE, FALSE), Msg("tool", ShortText, FALSE, TRUE)}

\* saturating_sub on usize.
saturating_sub(a, b) == IF a > b THEN a - b ELSE 0

\* estimate_tokens: (2 * (chars / 4) + floor(words * 1.3)) / 3. The f32
\* product floor(words * 1.3) equals (13 * words) / 10 for words < 90, which
\* covers every text of the model.
estimate_tokens(text) ==
    LET char_estimate == text.chars \div 4
        word_estimate == (text.words * 13) \div 10
    IN  (char_estimate * 2 + word_estimate) \div 3

\* estimate_message_tokens: content + 4 of overhead (no name) + tool calls.
estimate_message_tokens(m) ==
    estimate_tokens(m.content) + 4
        + (IF m.tool_calls THEN estimate_tokens(ToolCallText) ELSE 0)

RECURSIVE SumMessageTokens(_)
SumMessageTokens(msgs) ==
    IF msgs = <<>> THEN 0
    ELSE estimate_message_tokens(Head(msgs)) + SumMessageTokens(Tail(msgs))

\* estimate_request_tokens: the messages, no tool definitions, 100 of framing.
estimate_request_tokens(msgs) == SumMessageTokens(msgs) + 100

\* A should_preserve that applies the tool-call test whatever the
\* configuration says.
should_preserve_ToolsAlways(cfg, msgs, i0) ==
    LET msg == msgs[i0 + 1] IN
    \/ cfg.preserve_system /\ msg.role = "system"
    \/ i0 >= saturating_sub(Len(msgs), cfg.preserve_recent)
    \/ msg.role = "tool" \/ msg.tool_calls \/ msg.tool_call_id

\* The should_preserve test of categorize_messages for the message at the
\* 0-based index i0.
should_preserve(cfg, msgs, i0) ==
    LET msg == msgs[i0 + 1] IN
    \/ cfg.preserve_system /\ msg.role = "system"
    \/ i0 >= saturating_sub(Len(msgs), cfg.preserve_recent)
    \/ cfg.preserve_tool_calls
          /\ (msg.role = "tool" \/ msg.tool_calls \/ msg.tool_call_id)

RECURSIVE IndicesWhere(_, _, _, _)
IndicesWhere(cfg, msgs, i0, keep) ==
    IF i0 >= Len(msgs) THEN <<>>
    ELSE (IF should_preserve(cfg, msgs, i0) = keep THEN <<i0>> ELSE <<>>)
         \o IndicesWhere(cfg, msgs, i0 + 1, keep)

\* categorize_messages: the 0-based indices to preserve and to summarize.
categorize_messages(cfg, msgs) ==
    [preserve |-> IndicesWhere(cfg, msgs, 0, TRUE),
     summarize |-> IndicesWhere(cfg, msgs, 0, FALSE)]

\* An analyze that compares with the threshold without the reserve.
analyze_NoReserve(cfg, msgs) ==
    LET current_tokens == estimate_request_tokens(msgs)
        threshold_tokens == (cfg.max_context_tokens * cfg.threshold_pct) \div 100
        needs == current_tokens > threshold_tokens
        cat == categorize_messages(cfg, msgs)
    IN  [current_tokens |-> current_tokens,
         max_tokens |-> cfg.max_context_tokens,
         needs_compaction |-> needs,
         tokens_to_free |-> IF needs
                            THEN saturating_sub(current_tokens, threshold_tokens \div 2)
                            ELSE 0,
         messages_to_summarize |-> cat.summarize,
         messages_to_preserve |-> cat.preserve]

\* analyze. threshold is kept in percent: floor(max * threshold).
analyze(cfg, msgs) ==
    LET current_tokens == estimate_request_tokens(msgs)
        threshold_tokens == (cfg.max_context_tokens * cfg.threshold_pct) \div 100
        effective_threshold == saturating_sub(threshold_tokens, RESPONSE_RESERVE)
        needs == current_tokens > effective_threshold
        cat == categorize_messages(cfg, msgs)
    IN  [current_tokens |-> current_tokens,
         max_tokens |-> cfg.max_context_tokens,
         needs_compaction |-> needs,
         tokens_to_free |-> IF needs
                            THEN saturating_sub(current_tokens, threshold_tokens \div 2)
                            ELSE 0,
         messages_to_summarize |-> cat.summarize,
         messages_to_preserve |-> cat.preserve]

\* truncate_for_summary on a single-word text: at most max_chars characters
\* are kept and "..." is appended.
truncate_for_summary(text, max_chars) ==
    IF text.chars <= max_chars THEN text ELSE Text(max_chars + 3, text.words)

RoleLen(role) ==
    CASE role = "system" -> 6 [] role = "user" -> 4
      [] role = "assistant" -> 9 [] role = "tool" -> 4 [] OTHER -> 0

\* The pieces one message pushes on turn_content: its truncated content when
\* not empty, "[Used tools]", "[Tool result]".
TurnPieces(m) ==
    LET c == truncate_for_summary(m.content, 500) IN
    (IF c.chars > 0 THEN <<c>> ELSE <<>>)
    \o (IF m.tool_calls THEN <<Text(12, 2)>> ELSE <<>>)
    \o (IF m.tool_call_id THEN <<Text(13, 2)>> ELSE <<>>)

RECURSIVE SumChars(_)
SumChars(ts) == IF ts = <<>> THEN 0 ELSE Head(ts).chars + SumChars(Tail(ts))
RECURSIVE SumWords(_)
SumWords(ts) == IF ts = <<>> THEN 0 ELSE Head(ts).words + SumWords(Tail(ts))

\* "**Role**: " + turn_content.join(" ") + the newlines that end the turn.
TurnText(role, turn, newlines) ==
    Text(6 + RoleLen(role) + SumChars(turn) + (Len(turn) - 1) + newlines,
         1 + SumWords(turn))

\* The loop of generate_summary from message k on: acc is the summary so
\* far, role the current_role, turn the turn_content.
RECURSIVE SummaryLoop(_, _, _, _, _)
SummaryLoop(msgs, k, acc, role, turn) ==
    IF k > Len(msgs)
    THEN IF turn # <<>>
         THEN LET t == TurnText(role, turn, 1)
              IN  Text(acc.chars + t.chars, acc.words + t.words)
         ELSE acc
    ELSE LET m == msgs[k]
             flush == m.role # role /\ turn # <<>>
             t == TurnText(role, turn, 2)
             acc2 == IF flush THEN Text(acc.chars + t.chars, acc.words + t.words)
                     ELSE acc
             turn2 == IF flush THEN <<>> ELSE turn
         IN  SummaryLoop(msgs, k + 1, acc2, m.role, turn2 \o TurnPieces(m))

\* generate_summary: the 75-character, 10-word header, the turns, and the
\* closing tag of 18 characters.
generate_summary(msgs) ==
    LET body == SummaryLoop(msgs, 1, Text(75, 10), "", <<>>)
    IN  Text(body.chars + 18, body.words + 1)

\* The messages of msgs at the 0-based indices idx, in the order of idx.
RECURSIVE MessagesAt(_, _)
MessagesAt(msgs, idx) ==
    IF idx = <<>> THEN <<>>
    ELSE (IF Head(idx) < Len(msgs) THEN <<msgs[Head(idx) + 1]>> ELSE <<>>)
         \o MessagesAt(msgs, Tail(idx))

\* A summary that is put in as a user message.
SummaryMessage_AsUser(summary) == Msg("user", summary, FALSE, FALSE)

SummaryMessage(summary) == Msg("system", summary, FALSE, FALSE)

\* The new list with the summary put in front of every preserved message.
NewMessages_SummaryFirst(msgs, preserve, summary) ==
    <<SummaryMessage(summary)>> \o MessagesAt(msgs, preserve)

\* new_messages of compact (lines 330-358): the preserved system messages,
\* the summary as a system message, the preserved non-system messages.
NewMessages(msgs, preserve, summary) ==
    SelectSeq(MessagesAt(msgs, preserve), LAMBDA m : m.role = "system")
    \o <<SummaryMessage(summary)>>
    \o SelectSeq(MessagesAt(msgs, preserve), LAMBDA m : m.role # "system")

\* CompactionResult; summary is None or the text of the generated summary.
CompactionOk(compacted, original, new, summarized, summary) ==
    [tag |-> "ok", compacted |-> compacted, original_tokens |-> original,
     new_tokens |-> new, messages_summarized |-> summarized, summary |-> summary]
CompactionErr(kind) == [tag |-> "err", error |-> kind]

\* compact's hook_engine argument: None, or an engine over config whose
\* PreCompact command hook, when it is executed, exits 0 or exits 2.
HookEngines == {"None", "exits 0", "exits 2"}

\* The exit code of the PreCompact hook of an engine.
PreCompactExitCode(engine) == IF engine = "exits 2" THEN 2 ELSE 0

\* What engine.run(PreCompact) returns to compact: run returns allowed at
\* once when get_entries_for_event has no entry for the event
\* (hooks.rs:233); otherwise the hooks run and their results are merged.
PreCompactResults(cfg, engine) ==
    IF get_entries_for_event(cfg, "pre_compact") = <<>>
    THEN {HookResultAllowed}
    ELSE {MergeResults(<<CommandCompleted([kind |-> "empty", decision |-> None],
                                          PreCompactExitCode(engine))>>)}

\* compact from line 309 on, for a request that needs compaction and whose
\* hooks allowed it: [messages, res], the caller's message list and the
\* value returned. The candidate list is assigned to request.messages
\* (line 362) before the token check.
Summarise(msgs, a) ==
    LET to_summarize == MessagesAt(msgs, a.messages_to_summarize)
        summary == generate_summary(to_summarize)
        new_messages == NewMessages(msgs, a.messages_to_preserve, summary)
        new_tokens == estimate_request_tokens(new_messages)
    IN  IF to_summarize = <<>>
        THEN [messages |-> msgs,
              res |-> CompactionOk(FALSE, a.current_tokens, a.current_tokens, 0, None)]
        ELSE IF new_tokens >= a.current_tokens
        THEN [messages |-> new_messages, res |-> CompactionErr("Failed")]
        ELSE [messages |-> new_messages,
              res |-> CompactionOk(TRUE, a.current_tokens, new_tokens,
                                   Len(to_summarize), summary)]

\* The calls of engine.run(PreCompact) one compact makes: one if compaction
\* is needed and an engine was given (lines 286-295), none otherwise.
EngineRuns(a, engine) == IF a.needs_compaction /\ engine # "None" THEN 1 ELSE 0

\* ContextCompactor::compact, with or without a hook engine.
Compact ==
    /\ cres.tag = "none"
    /\ before' = request
    /\ LET a == analyze(ccfg, request) IN
       IF ~a.needs_compaction
       THEN /\ cres' = CompactionOk(FALSE, a.current_tokens, a.current_tokens, 0, None)
            /\ request' = request
       ELSE \E hook_result \in (IF hook_engine = "None" THEN {HookResultAllowed}
                                ELSE PreCompactResults(config, hook_engine)) :
            IF ~hook_result.allowed
            THEN /\ cres' = CompactionErr("HookBlocked")
                 /\ request' = request
            ELSE /\ cres' = Summarise(request, a).res
                 /\ request' = Summarise(request, a).messages
    /\ hook_runs' = hook_runs + EngineRuns(analyze(ccfg, request), hook_engine)
    /\ UNCHANGED <<ccfg, hook_engine, again>>

\* No second compact yet.
NotAgain ==
    [tag |-> "none", request_before |-> <<>>, messages_to_summarize |-> <<>>,
     res |-> [tag |-> "none"]]

\* ContextCompactor::compact once more, by the same compactor with the same
\* engine, on the request as the first call left it.
CompactAgain ==
    /\ cres.tag # "none"
    /\ again.tag = "none"
    /\ LET a == analyze(ccfg, request)
           found == [tag |-> "done", request_before |-> request,
                     messages_to_summarize |-> a.messages_to_summarize,
                     res |-> [tag |-> "none"]]
       IN
       IF ~a.needs_compaction
       THEN /\ again' = [found EXCEPT !.res =
                   CompactionOk(FALSE, a.current_tokens, a.current_tokens, 0, None)]
            /\ request' = request
       ELSE \E hook_result \in (IF hook_engine = "None" THEN {HookResultAllowed}
                                ELSE PreCompactResults(config, hook_engine)) :
            IF ~hook_result.allowed
            THEN /\ again' = [found EXCEPT !.res = CompactionErr("HookBlocked")]
                 /\ request' = request
            ELSE /\ again' = [found EXCEPT !.res = Summarise(request, a).res]
                 /\ request' = Summarise(request, a).messages
    /\ hook_runs' = hook_runs + EngineRuns(analyze(ccfg, request), hook_engine)
    /\ UNCHANGED <<ccfg, before, cres, hook_engine>>

CompactionConfigs ==
    [max_context_tokens : {1000, 6000}, threshold_pct : {85},
     preserve_recent : {0, 1, 2}, preserve_system : BOOLEAN,
     preserve_tool_calls : BOOLEAN]

RECURSIVE MessageLists(_)
MessageLists(n) ==
    IF n = 0 THEN {<<>>}
    ELSE {<<>>} \cup {<<m>> \o rest : m \in MessageShapes, rest \in MessageLists(n - 1)}

InitCompactor ==
    /\ ccfg \in CompactionConfigs
    /\ request \in MessageLists(MaxMsgs)
    /\ before = <<>>
    /\ cres = [tag |-> "none"]
    /\ hook_engine \in HookEngines
    /\ hook_runs = 0
    /\ again = NotAgain

\* The compactor before any call, on an empty request.
CompactorAtRest ==
    /\ ccfg = [max_context_tokens |-> 128000, threshold_pct |-> 85,
               preserve_recent |-> 4, preserve_system |-> TRUE,
               preserve_tool_calls |-> TRUE]
    /\ request = <<>>
    /\ before = <<>>
    /\ cres = [tag |-> "none"]
    /\ hook_engine = "None"
    /\ hook_runs = 0
    /\ again = NotAgain

(***************************************************************************)
(*                     MCP STDIO TRANSPORT (mcp.rs)                        *)
(***************************************************************************)

\* Bound: the number of concurrent callers of one stdio connection.
MaxCallers == 2
\* Bound: the number of requests sent on one connection.
MaxRequests == 3

\* Bound: the ids of a connection that is used without end.
IdSpace == 4

Callers == 1..MaxCallers

\* No caller holds the mutex around the child process.
Unlocked == 0

McpOk(v) == [tag |-> "ok", value |-> v]
McpErr(kind, detail) == [tag |-> "err", error |-> kind, detail |-> detail]
NoResult == [tag |-> "none"]

\* One line of the server's stdout.  A compliant server answers request id
\* with a line carrying that id; result names the request the payload
\* answers.
ResultLine(id) == [id |-> id, kind |-> "result", result |-> id]
ErrorLine(id) == [id |-> id, kind |-> "error", result |-> 0]
\* read_line at end of file leaves the line empty.
EofLine == [id |-> 0, kind |-> "eof", result |-> 0]
NoLine == [id |-> 0, kind |-> "none", result |-> 0]

ServerAnswers(id) == {ResultLine(id), ErrorLine(id)}

\* A request that skips the comparison of response.id with id.
ResponseOutcome_NoIdCheck(id, line) ==
    IF line.kind = "eof" THEN McpErr("Protocol", "Failed to parse response")
    ELSE IF line.kind = "error" THEN McpErr("Protocol", "RPC error")
    ELSE McpOk(line.result)

\* What request returns for the line it read: parse, id check, error check.
ResponseOutcome(id, line) ==
    IF line.kind = "eof" THEN McpErr("Protocol", "Failed to parse response")
    ELSE IF line.id # id THEN McpErr("Protocol", "Response ID mismatch")
    ELSE IF line.kind = "error" THEN McpErr("Protocol", "RPC error")
    ELSE McpOk(line.result)

IdleCall == [pc |-> "idle", id |-> 0, timed |-> FALSE, read |-> NoLine,
             res |-> NoResult]

Returned(call, line, res) ==
    [call EXCEPT !.pc = "returned", !.read = line, !.res = res]

\* A request that reads the counter and stores it back in two steps: the
\* caller after the first one takes the id the first one took.
RequestStart_LoadStore(c, timed) ==
    /\ requests[c].pc \in {"idle", "returned"}
    /\ request_id <= MaxRequests
    /\ requests' = [requests EXCEPT ![c] =
                       [pc |-> "locking",
                        id |-> IF request_id > 1 THEN request_id - 1 ELSE request_id,
                        timed |-> timed, read |-> NoLine, res |-> NoResult]]
    /\ request_id' = request_id + 1
    /\ UNCHANGED <<childLock, child_stdin, child_stdout, serverUp, written, abandoned, quiet>>

\* request: take the next id and start waiting for the mutex.  timed says
\* whether the call runs under call_tool_with_timeout.
RequestStart(c, timed) ==
    /\ requests[c].pc \in {"idle", "returned"}
    /\ request_id <= MaxRequests
    /\ requests' = [requests EXCEPT ![c] = [pc |-> "locking", id |-> request_id,
                                      timed |-> timed, read |-> NoLine,
                                      res |-> NoResult]]
    /\ request_id' = request_id + 1
    /\ UNCHANGED <<childLock, child_stdin, child_stdout, serverUp, written, abandoned, quiet>>

\* request on a connection that is used without end: the ids are kept in
\* 1..IdSpace, which is more than the requests and responses in flight, so
\* that two ids the code compares are equal here exactly when they are
\* equal there.
RequestStartWrapping(c, timed) ==
    /\ requests[c].pc \in {"idle", "returned"}
    /\ requests' = [requests EXCEPT ![c] = [pc |-> "locking", id |-> request_id,
                                      timed |-> timed, read |-> NoLine,
                                      res |-> NoResult]]
    /\ request_id' = (request_id % IdSpace) + 1
    /\ UNCHANGED <<childLock, child_stdin, child_stdout, serverUp, written,
                   abandoned, quiet>>

\* request: the mutex is acquired and the request line is written and
\* flushed; the guard is kept for the read.  A write to a server that has
\* exited fails, and the guard is dropped with the return.
RequestWrite(c) ==
    /\ requests[c].pc = "locking"
    /\ childLock = Unlocked
    /\ IF serverUp
       THEN /\ child_stdin' = Append(child_stdin, requests[c].id)
            /\ written' = written \cup {requests[c].id}
            /\ childLock' = c
            /\ requests' = [requests EXCEPT ![c].pc = "reading"]
       ELSE /\ requests' = [requests EXCEPT ![c] =
                  Returned(@, NoLine, McpErr("Transport", "Failed to write to stdin"))]
            /\ UNCHANGED <<child_stdin, childLock, written, abandoned, quiet>>
    /\ UNCHANGED <<request_id, child_stdout, serverUp, abandoned, quiet>>

\* request: read_line through a BufReader made for this call.  The reader
\* returns the first line; whatever else it had buffered (k - 1 further
\* lines) is dropped with it.
RequestRead(c) ==
    /\ requests[c].pc = "reading"
    /\ child_stdout # <<>>
    /\ \E k \in 1..Len(child_stdout) :
          child_stdout' = SubSeq(child_stdout, k + 1, Len(child_stdout))
    /\ requests' = [requests EXCEPT ![c] =
          Returned(@, Head(child_stdout),
                   ResponseOutcome(@.id, Head(child_stdout)))]
    /\ childLock' = Unlocked
    /\ abandoned' = IF abandoned = "yes" /\ Head(child_stdout).id = requests[c].id
                    THEN "recovered" ELSE abandoned
    /\ UNCHANGED <<request_id, child_stdin, serverUp, written, quiet>>

\* request: read_line at end of file, after the server has exited.
RequestReadEof(c) ==
    /\ requests[c].pc = "reading"
    /\ child_stdout = <<>>
    /\ ~serverUp
    /\ requests' = [requests EXCEPT ![c] =
          Returned(@, EofLine, ResponseOutcome(@.id, EofLine))]
    /\ childLock' = Unlocked
    /\ UNCHANGED <<request_id, child_stdin, child_stdout, serverUp, written, abandoned, quiet>>

\* A timeout that takes the request back from the server: a cancellation.
CallTimeout_TakesBack(c) ==
    /\ requests[c].pc \in {"locking", "reading"}
    /\ requests[c].timed
    /\ requests' = [requests EXCEPT ![c] = Returned(@, NoLine, McpErr("Timeout", ""))]
    /\ childLock' = IF childLock = c THEN Unlocked ELSE childLock
    /\ child_stdin' = SelectSeq(child_stdin, LAMBDA i : i # requests[c].id)
    /\ abandoned' = IF requests[c].pc = "reading" THEN "yes" ELSE abandoned
    /\ UNCHANGED <<request_id, child_stdout, serverUp, written, quiet>>

\* call_tool_with_timeout: the timeout fires while the call waits for the
\* mutex or for the response; the call's future is dropped, and with it the
\* guard, and the caller gets Timeout.  Nothing is read and nothing is
\* taken back from the server's stdin.
CallTimeout(c) ==
    /\ requests[c].pc \in {"locking", "reading"}
    /\ requests[c].timed
    /\ requests' = [requests EXCEPT ![c] = Returned(@, NoLine, McpErr("Timeout", ""))]
    /\ childLock' = IF childLock = c THEN Unlocked ELSE childLock
    /\ abandoned' = IF requests[c].pc = "reading" THEN "yes" ELSE abandoned
    /\ UNCHANGED <<request_id, child_stdin, child_stdout, serverUp, written, quiet>>

\* The server takes the oldest request it has received and answers it; it
\* sends nothing for the request it treats as a notification.
ServerRespond ==
    /\ serverUp
    /\ child_stdin # <<>>
    /\ IF Head(child_stdin) = quiet
       THEN UNCHANGED child_stdout
       ELSE \E line \in ServerAnswers(Head(child_stdin)) :
               child_stdout' = Append(child_stdout, line)
    /\ child_stdin' = Tail(child_stdin)
    /\ UNCHANGED <<request_id, childLock, requests, serverUp, written, abandoned, quiet>>

\* The server process exits.
ServerExit ==
    /\ serverUp
    /\ serverUp' = FALSE
    /\ UNCHANGED <<request_id, childLock, requests, child_stdin, child_stdout,
                   written, abandoned, quiet>>

\* StdioTransport::spawn: ids start at 1, nobody holds the mutex.  The
\* server spawned sends no response to the request with id q (none when q
\* is 0).
SpawnServer(q) ==
    /\ request_id = 1
    /\ childLock = Unlocked
    /\ requests = [c \in Callers |-> IdleCall]
    /\ child_stdin = <<>>
    /\ child_stdout = <<>>
    /\ serverUp = TRUE
    /\ written = {}
    /\ abandoned = "no"
    /\ quiet = q

\* A transport to a server that answers every request.
InitStdioTransport == SpawnServer(0)

(***************************************************************************)
(*                    ARCHIVAL MEMORY STORE (memory.rs)                    *)
(***************************************************************************)

\* Bound: the number of rows ever inserted into archival_memory.
MaxEntries == 2

\* A text column is modelled by the set of tokens the FTS5 tokenizer makes
\* of it; tags.join(",") tokenizes to the tokens of the tags.
Tokens == {"rust", "tokio"}
Contents == SUBSET Tokens
TagLists == {{}, {"rust"}}

\* A query is a non-empty list of terms, all of which must match.
Queries == (SUBSET Tokens) \ {{}}
Limits == 0..MaxEntries

Row(content, tags) == [content |-> content, tags |-> tags]

\* The postings the index holds for one row.
Postings(rowid, content, tags) ==
    {<<rowid, "content", t>> : t \in content} \cup {<<rowid, "tags", t>> : t \in tags}

\* INSERT INTO archival_memory_fts(rowid, content, tags)
FtsInsert(idx, rowid, content, tags) == idx \cup Postings(rowid, content, tags)

\* INSERT INTO archival_memory_fts(archival_memory_fts, rowid, content, tags)
\* VALUES('delete', ...)
FtsDelete(idx, rowid, content, tags) == idx \ Postings(rowid, content, tags)

\* Trigger archival_memory_ai.
archival_memory_ai(idx, new_id, new) ==
    FtsInsert(idx, new_id, new.content, new.tags)

\* Trigger archival_memory_ad.
archival_memory_ad(idx, old_id, old) ==
    FtsDelete(idx, old_id, old.content, old.tags)

\* An update trigger that does not remove the old row from the index.
archival_memory_au_NoDelete(idx, id, old, new) ==
    FtsInsert(idx, id, new.content, new.tags)

\* Trigger archival_memory_au.
archival_memory_au(idx, id, old, new) ==
    FtsInsert(FtsDelete(idx, id, old.content, old.tags), id, new.content, new.tags)

\* archival_memory_fts MATCH q: the rowids with a posting for every term.
FtsMatch(idx, q) ==
    {p[1] : p \in {x \in idx : \A t \in q : \E col \in {"content", "tags"} :
                                  <<x[1], col, t>> \in idx}}

\* The rows memory_search selects before LIMIT: the index joined to the table.
SearchHits(q) == FtsMatch(fts, q) \cap DOMAIN archival_memory

MemOp(op, query, limit, ids, ok) ==
    [op |-> op, query |-> query, limit |-> limit, ids |-> ids, ok |-> ok]

\* The tokens of a row.
RowTokens(row) == row.content \cup row.tags

\* A memory_save on a table without AUTOINCREMENT: the new rowid is one
\* more than the largest rowid in the table.
memory_save_NoAutoincrement(content, tags) ==
    LET id == IF DOMAIN archival_memory = {} THEN 1
              ELSE 1 + CHOOSE m \in DOMAIN archival_memory :
                           \A r \in DOMAIN archival_memory : r <= m
    IN  /\ next_rowid <= MaxEntries
        /\ archival_memory' = (id :> Row(content, tags)) @@ archival_memory
        /\ fts' = archival_memory_ai(fts, id, Row(content, tags))
        /\ next_rowid' = next_rowid + 1
        /\ memOp' = MemOp("memory_save", {}, 0, {id}, TRUE)
        /\ saved_ids' = Append(saved_ids, id)
        /\ unindexed' = {}

\* memory_save: AUTOINCREMENT gives one more than the largest rowid the
\* table ever held, which sqlite_sequence keeps.
memory_save(content, tags) ==
    /\ next_rowid <= MaxEntries
    /\ archival_memory' = (next_rowid :> Row(content, tags)) @@ archival_memory
    /\ fts' = archival_memory_ai(fts, next_rowid, Row(content, tags))
    /\ next_rowid' = next_rowid + 1
    /\ memOp' = MemOp("memory_save", {}, 0, {next_rowid}, TRUE)
    /\ saved_ids' = Append(saved_ids, next_rowid)
    /\ unindexed' = {}

memory_update(id, content) ==
    IF id \in DOMAIN archival_memory
    THEN LET old == archival_memory[id]
             new == [old EXCEPT !.content = content]
         IN  /\ archival_memory' = [archival_memory EXCEPT ![id] = new]
             /\ fts' = archival_memory_au(fts, id, old, new)
             /\ unindexed' = {<<id, t>> : t \in RowTokens(old) \ RowTokens(new)}
             /\ memOp' = MemOp("memory_update", {}, 0, {id}, TRUE)
             /\ UNCHANGED <<next_rowid, saved_ids>>
    ELSE /\ memOp' = MemOp("memory_update", {}, 0, {id}, FALSE)
         /\ unindexed' = {}
         /\ UNCHANGED <<archival_memory, fts, next_rowid, saved_ids>>

memory_delete(id) ==
    IF id \in DOMAIN archival_memory
    THEN /\ archival_memory' =
                [r \in DOMAIN archival_memory \ {id} |-> archival_memory[r]]
         /\ fts' = archival_memory_ad(fts, id, archival_memory[id])
         /\ unindexed' = {<<id, t>> : t \in RowTokens(archival_memory[id])}
         /\ memOp' = MemOp("memory_delete", {}, 0, {id}, TRUE)
         /\ UNCHANGED <<next_rowid, saved_ids>>
    ELSE /\ memOp' = MemOp("memory_delete", {}, 0, {id}, FALSE)
         /\ unindexed' = {}
         /\ UNCHANGED <<archival_memory, fts, next_rowid, saved_ids>>

\* The delete trigger run for every row of the set ids.
RECURSIVE DeleteRows(_, _)
DeleteRows(idx, ids) ==
    IF ids = {} THEN idx
    ELSE LET id == CHOOSE r \in ids : TRUE
         IN  DeleteRows(archival_memory_ad(idx, id, archival_memory[id]), ids \ {id})

clear_archival_memory ==
    /\ archival_memory' = <<>>
    /\ fts' = DeleteRows(fts, DOMAIN archival_memory)
    /\ unindexed' =
           UNION {{<<id, t>> : t \in RowTokens(archival_memory[id])} :
                  id \in DOMAIN archival_memory}
    /\ memOp' = MemOp("clear_archival_memory", {}, 0, DOMAIN archival_memory, TRUE)
    /\ UNCHANGED <<next_rowid, saved_ids>>

\* memory_search: the hits in rank order, cut at limit.  The rank is not
\* modelled: a cut keeps any limit of the hits.
memory_search(q, limit) ==
    /\ \E ids \in SUBSET SearchHits(q) :
          /\ Cardinality(ids) =
                 IF Cardinality(SearchHits(q)) <= limit
                 THEN Cardinality(SearchHits(q)) ELSE limit
          /\ memOp' = MemOp("memory_search", q, limit, ids, TRUE)
    /\ UNCHANGED <<archival_memory, fts, next_rowid, unindexed, saved_ids>>

\* The sections of core memory and their default content.
CoreSections == {"persona", "project_info", "user_preferences"}
DefaultCore == [section \in CoreSections |-> "default"]

\* The arguments of update_core_memory: any section name, any content.
SectionArgs == CoreSections \cup {"notes"}
CoreContents == {"updated"}

\* update_core_memory: INSERT OR REPLACE, whatever the section.
update_core_memory(section, content) ==
    /\ core_memory' = (section :> content) @@ core_memory
    /\ memOp' = MemOp("update_core_memory", {}, 0, {}, TRUE)
    /\ unindexed' = {}
    /\ UNCHANGED <<archival_memory, fts, next_rowid, saved_ids, reset>>

\* An ensure_schema that writes the defaults with INSERT OR REPLACE.
ensure_schema_Replace(core) == DefaultCore @@ core

\* ensure_schema on an existing file: CREATE ... IF NOT EXISTS leaves the
\* tables, the index and the triggers as they are, and INSERT OR IGNORE
\* adds the default content of the core sections that have no row.
ensure_schema(core) == core @@ DefaultCore

\* The store is closed and MemoryDb::open is called on the same file.
open ==
    /\ core_memory' = ensure_schema(core_memory)
    /\ memOp' = MemOp("open", {}, 0, {}, TRUE)
    /\ unindexed' = {}
    /\ UNCHANGED <<archival_memory, fts, next_rowid, saved_ids, reset>>

\* reset_all runs its three statements with execute_batch: each statement
\* commits on its own, and the batch stops at the first that fails.
NotResetting == [pc |-> "idle", archival_memory |-> <<>>, core_memory |-> <<>>]

\* A statement of the batch fails: reset_all returns the error.
ResetFails ==
    /\ reset.pc # "idle"
    /\ reset' = [reset EXCEPT !.pc = "idle"]
    /\ memOp' = MemOp("reset_all", {}, 0, {}, FALSE)
    /\ UNCHANGED <<archival_memory, fts, next_rowid, unindexed, saved_ids,
                   core_memory>>

\* reset_all is called.
reset_all ==
    /\ reset.pc = "idle"
    /\ reset' = [pc |-> "DELETE FROM archival_memory",
                 archival_memory |-> archival_memory,
                 core_memory |-> core_memory]
    /\ memOp' = MemOp("reset_all", {}, 0, {}, FALSE)
    /\ unindexed' = {}
    /\ UNCHANGED <<archival_memory, fts, next_rowid, saved_ids, core_memory>>

\* DELETE FROM archival_memory;
ResetDeleteArchival ==
    /\ reset.pc = "DELETE FROM archival_memory"
    /\ archival_memory' = <<>>
    /\ fts' = DeleteRows(fts, DOMAIN archival_memory)
    /\ unindexed' =
           UNION {{<<id, t>> : t \in RowTokens(archival_memory[id])} :
                  id \in DOMAIN archival_memory}
    /\ reset' = [reset EXCEPT !.pc = "DELETE FROM core_memory"]
    /\ UNCHANGED <<next_rowid, saved_ids, core_memory, memOp>>

\* DELETE FROM core_memory;
ResetDeleteCore ==
    /\ reset.pc = "DELETE FROM core_memory"
    /\ core_memory' = <<>>
    /\ reset' = [reset EXCEPT !.pc = "INSERT INTO core_memory"]
    /\ UNCHANGED <<archival_memory, fts, next_rowid, unindexed, saved_ids, memOp>>

\* INSERT INTO core_memory (section, content) VALUES ...; and Ok(()).
ResetInsertCore ==
    /\ reset.pc = "INSERT INTO core_memory"
    /\ core_memory' = DefaultCore
    /\ reset' = [reset EXCEPT !.pc = "idle"]
    /\ memOp' = MemOp("reset_all", {}, 0, {}, TRUE)
    /\ UNCHANGED <<archival_memory, fts, next_rowid, unindexed, saved_ids>>

\* MemoryDb::open on a new file: ensure_schema has made empty tables.
InitMemoryDb ==
    /\ archival_memory = <<>>
    /\ fts = {}
    /\ next_rowid = 1
    /\ unindexed = {}
    /\ memOp = MemOp("open", {}, 0, {}, TRUE)
    /\ saved_ids = <<>>
    /\ core_memory = DefaultCore
    /\ reset = NotResetting

(***************************************************************************)
(*                      SESSION MANAGER (session.rs)                       *)
(***************************************************************************)

\* Bound: the number of sessions created in one persistence directory.
MaxSessions == 3

\* Option::None for a session id; the ids drawn by Uuid::new_v4 are 1, 2, ...
NoSessionId == 0

\* A session: its id, mode, parent and progress.handoff_notes.
NoSession ==
    [id |-> NoSessionId, mode |-> "none", created_at |-> 0,
     parent_session_id |-> NoSessionId, handoff_notes |-> ""]

\* The readings of the wall clock, an earlier and a later one.  Utc::now()
\* is not monotonic and two readings can be equal.
Clock == {1, 2}

new_initializer(uuid, now) ==
    [id |-> uuid, mode |-> "Initializer", created_at |-> now,
     parent_session_id |-> NoSessionId, handoff_notes |-> ""]

new_coding(uuid, parent_id, now) ==
    [id |-> uuid, mode |-> "Coding", created_at |-> now,
     parent_session_id |-> parent_id, handoff_notes |-> ""]

\* The notes end_session is called with, and its Option argument: the
\* empty sequence is None, <<notes>> is Some(notes).
Notes == {"", "continue X"}
NotesOptions == {<<>>} \cup {<<notes>> : notes \in Notes}

set_handoff_notes(session, notes) == [session EXCEPT !.handoff_notes = notes]

\* generate_handoff: the header lines name the id and the mode, and the
\* notes section is written only for notes that are not empty.
NoText == [previous_session |-> NoSessionId, mode |-> "none", notes |-> <<>>]
generate_handoff(session) ==
    [previous_session |-> session.id,
     mode |-> session.mode,
     notes |-> IF session.handoff_notes # ""
               THEN <<"### Notes for Next Session", session.handoff_notes>>
               ELSE <<>>]

\* serde_json of a Session: the mode is written in snake_case, a missing
\* parent as null (NoSessionId), the notes inside progress.
NoJson ==
    [id |-> NoSessionId, mode |-> "null", created_at |-> 0,
     parent_session_id |-> NoSessionId, progress |-> [handoff_notes |-> ""]]

\* A serialisation that skips the notes.
to_string_pretty_NoNotes(session) ==
    [id |-> session.id,
     mode |-> CASE session.mode = "Initializer" -> "initializer"
                [] session.mode = "Coding" -> "coding"
                [] OTHER -> "null",
     created_at |-> session.created_at,
     parent_session_id |-> session.parent_session_id,
     progress |-> [handoff_notes |-> ""]]

to_string_pretty(session) ==
    [id |-> session.id,
     mode |-> CASE session.mode = "Initializer" -> "initializer"
                [] session.mode = "Coding" -> "coding"
                [] OTHER -> "null",
     created_at |-> session.created_at,
     parent_session_id |-> session.parent_session_id,
     progress |-> [handoff_notes |-> session.handoff_notes]]

\* serde_json::from_str: a Session, or NoSession when the text is not one.
from_str(json) ==
    IF json.mode \in {"initializer", "coding"} /\ json.id # NoSessionId
    THEN [id |-> json.id,
          mode |-> IF json.mode = "initializer" THEN "Initializer" ELSE "Coding",
          created_at |-> json.created_at,
          parent_session_id |-> json.parent_session_id,
          handoff_notes |-> json.progress.handoff_notes]
    ELSE NoSession

\* The files of the persistence directory: <id>.json is named by the id.
SessionFileNames == 1..MaxSessions
FileNames == {"latest.json", "handoff.md"}

\* A file: missing, cut short by a failed write (no JSON parses from it),
\* holding the JSON of a session, or holding a handoff text.
Missing == [kind |-> "missing", json |-> NoJson, text |-> NoText]
Unparseable == [kind |-> "unparseable", json |-> NoJson, text |-> NoText]
Written(session) ==
    [kind |-> "written", json |-> to_string_pretty(session), text |-> NoText]
WrittenText(text) == [kind |-> "text", json |-> NoJson, text |-> text]

\* load_session_from_path: None for a missing, unreadable or unparseable file.
load_session_from_path(file) ==
    IF file.kind = "written" THEN from_str(file.json) ELSE NoSession

load_session(dir, session_id) ==
    IF session_id \in DOMAIN dir.sessions
    THEN load_session_from_path(dir.sessions[session_id])
    ELSE NoSession

load_latest_session(dir) == load_session_from_path(dir.named["latest.json"])

\* get_handoff_context: the text of handoff.md as it is, None when the file
\* cannot be read.
get_handoff_context(dir) ==
    IF dir.named["handoff.md"].kind = "missing"
    THEN [some |-> FALSE, text |-> NoText]
    ELSE [some |-> TRUE, text |-> dir.named["handoff.md"].text]

\* A create_session that never looks at latest.json.
create_session_Fresh(dir, uuid, now) == new_initializer(uuid, now)

create_session(dir, uuid, now) ==
    LET last_session == load_latest_session(dir)
    IN  IF last_session # NoSession
        THEN new_coding(uuid, last_session.id, now)
        ELSE new_initializer(uuid, now)

\* What a failed fs::write leaves: the file as it was, or a truncated file.
FailedWrite(file) == {file, Unparseable}

\* persist_session writes <id>.json, latest.json and handoff.md in this
\* order and stops at the first write that fails.  failAt is the number of
\* the failing write, 0 for none.
PersistOutcomes(dir, session, failAt) ==
    LET w1 == [dir EXCEPT !.sessions[session.id] = Written(session)]
        w2 == [w1 EXCEPT !.named["latest.json"] = Written(session)]
        w3 == [w2 EXCEPT !.named["handoff.md"] =
                             WrittenText(generate_handoff(session))]
    IN  CASE failAt = 1 ->
               {[dir EXCEPT !.sessions[session.id] = f] :
                   f \in FailedWrite(dir.sessions[session.id])}
          [] failAt = 2 ->
               {[w1 EXCEPT !.named["latest.json"] = f] :
                   f \in FailedWrite(w1.named["latest.json"])}
          [] failAt = 3 ->
               {[w2 EXCEPT !.named["handoff.md"] = f] :
                   f \in FailedWrite(w2.named["handoff.md"])}
          [] OTHER -> {w3}

\* Whether persist_session got past its write of latest.json.
LatestWritten(failAt) == failAt \notin {1, 2}

\* No cleanup_old_sessions was the last operation.
NoCleanup ==
    [keep_count |-> 0,
     before |-> [sessions |-> [n \in SessionFileNames |-> Missing],
                 named |-> [n \in FileNames |-> Missing]]]

\* The values of keep_count.
KeepCounts == 0..2

get_or_create_session ==
    IF current_session = NoSession
    THEN /\ next_uuid <= MaxSessions
         /\ \E now \in Clock :
               /\ current_session' = create_session(persist_dir, next_uuid, now)
               /\ sessionRet' = [op |-> "get_or_create_session",
                                 session |-> create_session(persist_dir, next_uuid, now),
                                 handoff_notes |-> <<>>, persisted |-> FALSE]
         /\ next_uuid' = next_uuid + 1
         /\ cleaned' = NoCleanup
         /\ UNCHANGED <<persist_dir, last_ended, latest_writer>>
    ELSE /\ sessionRet' = [op |-> "get_or_create_session",
                           session |-> current_session,
                           handoff_notes |-> <<>>, persisted |-> FALSE]
         /\ cleaned' = NoCleanup
         /\ UNCHANGED <<persist_dir, current_session, next_uuid, last_ended,
                        latest_writer>>

\* An end_session that gives up when persist_session fails: it returns
\* None and the session stays current.
end_session_GiveUpOnError(handoff_notes) ==
    IF current_session # NoSession
    THEN LET session == IF handoff_notes # <<>>
                        THEN set_handoff_notes(current_session, handoff_notes[1])
                        ELSE current_session
         IN  /\ \E failAt \in 0..3 :
                   /\ persist_dir' \in PersistOutcomes(persist_dir, session, failAt)
                   /\ latest_writer' = IF LatestWritten(failAt)
                                       THEN session.id ELSE latest_writer
                   /\ sessionRet' = [op |-> "end_session",
                                     session |-> IF failAt = 0 THEN session
                                                 ELSE NoSession,
                                     handoff_notes |-> handoff_notes,
                                     persisted |-> (failAt = 0)]
                   /\ current_session' = IF failAt = 0 THEN NoSession
                                         ELSE current_session
                   /\ last_ended' = IF failAt = 0 THEN session.id ELSE last_ended
             /\ cleaned' = NoCleanup
             /\ UNCHANGED next_uuid
    ELSE /\ sessionRet' = [op |-> "end_session", session |-> NoSession,
                           handoff_notes |-> handoff_notes, persisted |-> FALSE]
         /\ cleaned' = NoCleanup
         /\ UNCHANGED <<persist_dir, current_session, next_uuid, last_ended,
                        latest_writer>>

\* end_session(handoff_notes).  sessionRet records the argument, the session
\* returned and whether persist_session returned Ok.
end_session(handoff_notes) ==
    IF current_session # NoSession
    THEN LET session == IF handoff_notes # <<>>
                        THEN set_handoff_notes(current_session, handoff_notes[1])
                        ELSE current_session
         IN  /\ \E failAt \in 0..3 :
                   /\ persist_dir' \in PersistOutcomes(persist_dir, session, failAt)
                   /\ latest_writer' = IF LatestWritten(failAt)
                                       THEN session.id ELSE latest_writer
                   /\ sessionRet' = [op |-> "end_session", session |-> session,
                                     handoff_notes |-> handoff_notes,
                                     persisted |-> (failAt = 0)]
             /\ current_session' = NoSession
             /\ last_ended' = session.id
             /\ cleaned' = NoCleanup
             /\ UNCHANGED next_uuid
    ELSE /\ sessionRet' = [op |-> "end_session", session |-> NoSession,
                           handoff_notes |-> handoff_notes, persisted |-> FALSE]
         /\ cleaned' = NoCleanup
         /\ UNCHANGED <<persist_dir, current_session, next_uuid, last_ended,
                        latest_writer>>

\* list_sessions: the sessions that parse from the <id>.json files, in
\* descending order of created_at.  read_dir gives the files in any order
\* and the sort is stable, so sessions with equal created_at come in any
\* order.
list_sessions(dir) ==
    LET ids == {n \in DOMAIN dir.sessions :
                   load_session_from_path(dir.sessions[n]) # NoSession}
        parsed(n) == load_session_from_path(dir.sessions[n])
    IN  {sessions \in [1..Cardinality(ids) -> {parsed(n) : n \in ids}] :
            /\ \A i, j \in DOMAIN sessions :
                   i # j => sessions[i] # sessions[j]
            /\ \A i, j \in DOMAIN sessions :
                   i < j => sessions[i].created_at >= sessions[j].created_at}

\* remove_file of <id>.json for the sessions of the list past keep_count.
RemovePast(dir, sessions, keep_count) ==
    [dir EXCEPT !.sessions =
        [n \in DOMAIN dir.sessions |->
            IF \E i \in DOMAIN sessions : i > keep_count /\ sessions[i].id = n
            THEN Missing ELSE dir.sessions[n]]]

\* A cleanup that removes the most recent sessions and keeps the oldest.
cleanup_old_sessions_KeepOldest(keep_count) ==
    /\ \E sessions \in list_sessions(persist_dir) :
          persist_dir' =
              IF Len(sessions) <= keep_count THEN persist_dir
              ELSE [persist_dir EXCEPT !.sessions =
                      [n \in DOMAIN persist_dir.sessions |->
                          IF \E i \in DOMAIN sessions :
                                /\ i <= Len(sessions) - keep_count
                                /\ sessions[i].id = n
                          THEN Missing ELSE persist_dir.sessions[n]]]
    /\ cleaned' = [keep_count |-> keep_count, before |-> persist_dir]
    /\ sessionRet' = [op |-> "cleanup_old_sessions", session |-> NoSession,
                      handoff_notes |-> <<>>, persisted |-> FALSE]
    /\ UNCHANGED <<current_session, next_uuid, last_ended, latest_writer>>

\* cleanup_old_sessions(keep_count).
cleanup_old_sessions(keep_count) ==
    /\ \E sessions \in list_sessions(persist_dir) :
          persist_dir' =
              IF Len(sessions) <= keep_count THEN persist_dir
              ELSE RemovePast(persist_dir, sessions, keep_count)
    /\ cleaned' = [keep_count |-> keep_count, before |-> persist_dir]
    /\ sessionRet' = [op |-> "cleanup_old_sessions", session |-> NoSession,
                      handoff_notes |-> <<>>, persisted |-> FALSE]
    /\ UNCHANGED <<current_session, next_uuid, last_ended, latest_writer>>

\* SessionManager::new on an empty directory.
InitSessionManager ==
    /\ persist_dir = [sessions |-> [n \in SessionFileNames |-> Missing],
                      named |-> [n \in FileNames |-> Missing]]
    /\ cleaned = NoCleanup
    /\ current_session = NoSession
    /\ next_uuid = 1
    /\ last_ended = NoSessionId
    /\ latest_writer = NoSessionId
    /\ sessionRet = [op |-> "new", session |-> NoSession,
                     handoff_notes |-> <<>>, persisted |-> FALSE]

\* What an earlier manager can have left in <id>.json: nothing, a file cut
\* short, or the session of that id with some created_at.
LeftSessionFiles(n) ==
    {Missing, Unparseable} \cup {Written(new_initializer(n, now)) : now \in Clock}

\* The directories SessionManager::new can find: latest.json and handoff.md
\* are missing, or were written with the session that was ended last.
LeftDirectories ==
    {[sessions |-> files,
      named |-> [f \in FileNames |->
                   IF ~latest_written \/ files[MaxSessions].kind # "written"
                   THEN Missing
                   ELSE IF f = "latest.json" THEN files[MaxSessions]
                   ELSE WrittenText(generate_handoff(
                            from_str(files[MaxSessions].json)))]] :
        files \in {fs \in [SessionFileNames ->
                              UNION {LeftSessionFiles(n) : n \in SessionFileNames}] :
                      \A n \in SessionFileNames : fs[n] \in LeftSessionFiles(n)},
        latest_written \in BOOLEAN}

\* SessionManager::new on a directory left by earlier managers.
InitSessionManagerOnLeftDirectory ==
    /\ persist_dir \in LeftDirectories
    /\ cleaned = NoCleanup
    /\ current_session = NoSession
    /\ next_uuid = MaxSessions + 1
    /\ last_ended = NoSessionId
    /\ latest_writer = NoSessionId
    /\ sessionRet = [op |-> "new", session |-> NoSession,
                     handoff_notes |-> <<>>, persisted |-> FALSE]

(***************************************************************************)
(*                 MCP SERVERS AND MANAGER (mcp.rs)                        *)
(***************************************************************************)

\* Bound: the length of a full tool name, in characters.
MaxNameLen == 4

\* Names are strings over a letter and the separator.
NameChars == {"a", "_"}

RECURSIVE NamesUpTo(_)
NamesUpTo(n) ==
    IF n = 0 THEN {<<>>}
    ELSE NamesUpTo(n - 1) \cup
         {Append(s, ch) : s \in {t \in NamesUpTo(n - 1) : Len(t) = n - 1},
                          ch \in NameChars}

FullNames == NamesUpTo(MaxNameLen)

\* The names servers are connected under, and the names of their tools.
ManagerServerNames == {<<"a">>, <<"a", "_", "a">>}
McpToolNames == {<<"a">>, <<"a", "_">>}
ToolArguments == {"{}", "{\"path\":\"x\"}"}
\* The values a server returns for a tools/call.
ToolResults == {"result 1", "result 2"}

\* A slot of the servers map: no record, or an McpServer with its transport
\* and its cached tool list.
NoServer == [connected |-> FALSE, transport |-> "none", tools |-> {}]
McpServer(transport, tools) ==
    [connected |-> TRUE, transport |-> transport, tools |-> tools]

\* McpManager::is_connected.
is_connected(map, name) == name \in DOMAIN map /\ map[name].connected

\* McpManager::all_tools: (server name, tool) pairs.
all_tools(map) ==
    UNION {{<<n, t>> : t \in map[n].tools} :
           n \in {m \in DOMAIN map : map[m].connected}}

\* The position of the first '_' of s at or after position i, 0 if none.
RECURSIVE FirstUnderscore(_, _)
FirstUnderscore(s, i) ==
    IF i > Len(s) THEN 0
    ELSE IF s[i] = "_" THEN i
    ELSE FirstUnderscore(s, i + 1)

\* The position of the last '_' of s at or before position i, 0 if none.
RECURSIVE LastUnderscore(_, _)
LastUnderscore(s, i) ==
    IF i < 1 THEN 0
    ELSE IF s[i] = "_" THEN i
    ELSE LastUnderscore(s, i - 1)

\* A split at the last '_' instead of the first.
splitn2_AtLast(full_name) ==
    LET k == LastUnderscore(full_name, Len(full_name))
    IN  IF k = 0 THEN <<full_name>>
        ELSE <<SubSeq(full_name, 1, k - 1), SubSeq(full_name, k + 1, Len(full_name))>>

\* full_name.splitn(2, '_'): the parts before and after the first '_'.
splitn2(full_name) ==
    LET k == FirstUnderscore(full_name, 1)
    IN  IF k = 0 THEN <<full_name>>
        ELSE <<SubSeq(full_name, 1, k - 1), SubSeq(full_name, k + 1, Len(full_name))>>

\* What a call does before its first await: it fails at once with err, or
\* it sends req on the transport of server and waits for the response.
FailNow(err) == [send |-> FALSE, server |-> <<>>, req |-> <<>>, err |-> err]
SendTo(server, req) ==
    [send |-> TRUE, server |-> server, req |-> req, err |-> NoResult]

ToolsCall(name, arguments) ==
    [method |-> "tools/call", name |-> name, arguments |-> arguments]

\* An McpServer::call_tool that does not look the name up in the cache.
McpServer_call_tool_NoLookup(map, server, name, arguments) ==
    SendTo(server, <<ToolsCall(name, arguments)>>)

\* McpServer::call_tool up to its await of transport.request.
McpServer_call_tool(map, server, name, arguments) ==
    IF name \notin map[server].tools
    THEN FailNow(McpErr("ToolNotFound", name))
    ELSE SendTo(server, <<ToolsCall(name, arguments)>>)

\* The message of the error for a full name without separator.
InvalidToolName(full_name) ==
    <<"Invalid tool name format: ">> \o full_name \o <<". Expected server_toolname">>

\* McpManager::call_tool up to its first await.
McpManager_call_tool(map, full_name, arguments) ==
    LET parts == splitn2(full_name)
    IN  IF Len(parts) # 2
        THEN FailNow(McpErr("ToolNotFound", InvalidToolName(full_name)))
        ELSE IF ~is_connected(map, parts[1])
        THEN FailNow(McpErr("NotConnected", parts[1]))
        ELSE McpServer_call_tool(map, parts[1], parts[2], arguments)

NoManagerOp ==
    [op |-> "none", pc |-> "returned", name |-> <<>>, arguments |-> "{}",
     timed |-> FALSE, res |-> NoResult, reply |-> NoResult,
     servers_before |-> [n \in ManagerServerNames |-> NoServer]]

\* McpManager::call_tool, or call_tool_with_timeout when timed, up to the
\* first await: the call returns its error at once, or its request is on
\* the transport and the call waits.
ManagerCallTool(full_name, arguments, timed) ==
    /\ mop.pc = "returned"
    /\ LET step == McpManager_call_tool(servers, full_name, arguments)
           op == [op |-> "call_tool", pc |-> "returned", name |-> full_name,
                  arguments |-> arguments, timed |-> timed, res |-> NoResult,
                  reply |-> NoResult, servers_before |-> servers]
       IN  IF step.send
           THEN /\ sent' = [n \in ManagerServerNames |->
                               IF n = step.server THEN step.req ELSE <<>>]
                /\ mop' = [op EXCEPT !.pc = "awaiting"]
           ELSE /\ sent' = [n \in ManagerServerNames |-> <<>>]
                /\ mop' = [op EXCEPT !.res = step.err]
    /\ UNCHANGED <<servers, children>>

\* transport.request returns: the server's result, or a transport or
\* protocol error.  call_tool passes either on as it is.
TransportReplies ==
    {McpOk(v) : v \in ToolResults}
    \cup {McpErr("Protocol", <<>>), McpErr("Transport", <<>>)}

ManagerCallReturn ==
    /\ mop.pc = "awaiting"
    /\ \E reply \in TransportReplies :
          mop' = [mop EXCEPT !.pc = "returned", !.res = reply, !.reply = reply]
    /\ UNCHANGED <<servers, children, sent>>

\* call_tool_with_timeout: the timeout elapses while the call waits.
ManagerCallTimeout ==
    /\ mop.pc = "awaiting"
    /\ mop.timed
    /\ mop' = [mop EXCEPT !.pc = "returned", !.res = McpErr("Timeout", <<>>)]
    /\ UNCHANGED <<servers, children, sent>>

\* A close that leaves the child process alone.
transport_close_NoKill(transport, child_state) == child_state

\* McpTransport::close: StdioTransport kills the child and waits for it,
\* HttpTransport does nothing.
transport_close(transport, child_state) ==
    IF transport = "stdio" THEN "killed" ELSE child_state

\* The names disconnect is called with: the server names and one more.
DisconnectNames == ManagerServerNames \cup {<<"_">>}

\* McpManager::disconnect.  It takes &mut self, so no call is waiting.
ManagerDisconnect(name) ==
    /\ mop.pc = "returned"
    /\ IF is_connected(servers, name)
       THEN /\ servers' = [servers EXCEPT ![name] = NoServer]
            /\ children' = [children EXCEPT ![name] =
                               transport_close(servers[name].transport, @)]
       ELSE UNCHANGED <<servers, children>>
    /\ mop' = [op |-> "disconnect", pc |-> "returned", name |-> name,
               arguments |-> "{}", timed |-> FALSE, res |-> McpOk("()"),
               reply |-> NoResult, servers_before |-> servers]
    /\ sent' = [n \in ManagerServerNames |-> <<>>]

\* McpManager::disconnect of a stdio server whose close fails: the record
\* was removed before close was awaited, child.kill() returns an error and
\* disconnect passes it on as a Transport error.
ManagerDisconnectCloseFails(name) ==
    /\ mop.pc = "returned"
    /\ is_connected(servers, name)
    /\ servers[name].transport = "stdio"
    /\ servers' = [servers EXCEPT ![name] = NoServer]
    /\ mop' = [op |-> "disconnect", pc |-> "returned", name |-> name,
               arguments |-> "{}", timed |-> FALSE,
               res |-> McpErr("Transport", <<>>),
               reply |-> NoResult, servers_before |-> servers]
    /\ sent' = [n \in ManagerServerNames |-> <<>>]
    /\ UNCHANGED children

\* The orders in which self.servers.keys() yields the names of the map.
KeyOrders(map) ==
    {o \in ListsUpTo(ManagerServerNames, Cardinality(ManagerServerNames)) :
        /\ \A n \in ManagerServerNames :
              is_connected(map, n) <=> \E i \in DOMAIN o : o[i] = n
        /\ \A i, j \in DOMAIN o : o[i] = o[j] => i = j}

\* The loop of disconnect_all over names: each name is disconnected, and
\* the first error of a close ends the loop through `?`.  fails holds the
\* names of the stdio servers whose close fails.
RECURSIVE disconnect_all(_, _, _, _)
disconnect_all(map, kids, names, fails) ==
    IF names = <<>>
    THEN [servers |-> map, children |-> kids, res |-> McpOk("()")]
    ELSE LET n == Head(names) IN
         IF ~is_connected(map, n)
         THEN disconnect_all(map, kids, Tail(names), fails)
         ELSE IF map[n].transport = "stdio" /\ n \in fails
         THEN [servers |-> [map EXCEPT ![n] = NoServer], children |-> kids,
               res |-> McpErr("Transport", <<>>)]
         ELSE disconnect_all([map EXCEPT ![n] = NoServer],
                             [kids EXCEPT ![n] =
                                 transport_close(map[n].transport, @)],
                             Tail(names), fails)

\* McpManager::disconnect_all.  It takes &mut self, so no call is waiting.
ManagerDisconnectAll(names, fails) ==
    /\ mop.pc = "returned"
    /\ LET out == disconnect_all(servers, children, names, fails)
       IN  /\ servers' = out.servers
           /\ children' = out.children
           /\ mop' = [op |-> "disconnect_all", pc |-> "returned", name |-> <<>>,
                      arguments |-> "{}", timed |-> FALSE, res |-> out.res,
                      reply |-> NoResult, servers_before |-> servers]
    /\ sent' = [n \in ManagerServerNames |-> <<>>]

\* The child of a stdio server exits on its own.
ManagedChildExit(name) ==
    /\ children[name] = "running"
    /\ children' = [children EXCEPT ![name] = "exited"]
    /\ UNCHANGED <<servers, sent, mop>>

(* ------------------ McpServer::new and the connects -------------------- *)

\* Bound: the number of entries of the tools array of a tools/list result.
MaxTools == 2

\* An entry of the tools array: one that deserializes as McpTool (it has a
\* name), or one that does not.
ToolEntry(name) == [named |-> TRUE, name |-> name]
NotATool == [named |-> FALSE, name |-> <<>>]
ToolEntries == {ToolEntry(n) : n \in McpToolNames} \cup {NotATool}

\* The result of a tools/list request: with or without a tools array.
ToolsListResult(entries) == [has_tools |-> TRUE, entries |-> entries]
NoToolsArray == [has_tools |-> FALSE, entries |-> <<>>]

ToolsListResults ==
    {ToolsListResult(l) : l \in ListsUpTo(ToolEntries, MaxTools)}
    \cup {NoToolsArray}

\* The errors transport.request returns.
TransportErrors == {McpErr("Protocol", <<>>), McpErr("Transport", <<>>)}

\* What transport.request returns for initialize, for
\* notifications/initialized and for tools/list.
InitializeReplies == {McpOk("{}")} \cup TransportErrors
NotificationReplies == {McpOk("null")} \cup TransportErrors
ToolsListReplies == {McpOk(r) : r \in ToolsListResults} \cup TransportErrors

\* refresh_tools after its request: the entries of the tools array that
\* deserialize, in their order (filter_map); without a tools array the
\* cache stays as it is.
refresh_tools(tools, listing) ==
    IF listing.has_tools
    THEN [i \in 1..Len(SelectSeq(listing.entries, LAMBDA t : t.named)) |->
             SelectSeq(listing.entries, LAMBDA t : t.named)[i].name]
    ELSE tools

\* No construction has been started.
NoConstruction ==
    [pc |-> "none", name |-> <<>>, transport |-> "none", issued |-> <<>>,
     replies |-> <<>>, tools |-> <<>>, res |-> NoResult,
     servers_before |-> [n \in ManagerServerNames |-> NoServer]]

\* connect_stdio / connect_http up to the first await of McpServer::new:
\* the transport is made (for stdio the child is spawned), the server value
\* has an empty tool cache, and initialize is on the transport.  connect
\* takes &mut self, so no call is waiting.
ConnectStart(name, transport) ==
    /\ mnew.pc \in {"none", "returned"}
    /\ mop.pc = "returned"
    /\ mnew' = [pc |-> "initialize", name |-> name, transport |-> transport,
                issued |-> <<"initialize">>, replies |-> <<>>, tools |-> <<>>,
                res |-> NoResult, servers_before |-> servers]
    /\ children' = [children EXCEPT ![name] =
                       IF transport = "stdio" THEN "running" ELSE @]
    /\ UNCHANGED <<servers, sent, mop>>

\* McpServer::new fails: the error goes through connect's `?`, the server
\* value is dropped and nothing is inserted.  The Child of a stdio transport
\* is dropped with it; spawn sets no kill_on_drop, so the process is left
\* running.
ConstructionFails(err) ==
    /\ mnew' = [mnew EXCEPT !.pc = "returned", !.replies = Append(@, err),
                            !.res = err]
    /\ UNCHANGED managerVars

\* initialize: the request returns; on Ok the notification is sent.
InitializeReturn(reply) ==
    /\ mnew.pc = "initialize"
    /\ IF reply.tag = "err"
       THEN ConstructionFails(reply)
       ELSE /\ mnew' = [mnew EXCEPT
                           !.pc = "notifications/initialized",
                           !.issued = Append(@, "notifications/initialized"),
                           !.replies = Append(@, reply)]
            /\ UNCHANGED managerVars

\* An initialize that passes the error of the notification on.
NotificationReturn_PassError(reply) ==
    /\ mnew.pc = "notifications/initialized"
    /\ IF reply.tag = "err"
       THEN ConstructionFails(reply)
       ELSE /\ mnew' = [mnew EXCEPT !.pc = "tools/list",
                                    !.issued = Append(@, "tools/list"),
                                    !.replies = Append(@, reply)]
            /\ UNCHANGED managerVars

\* initialize: the notification's request returns, `.ok()` drops its
\* result, initialize returns Ok and refresh_tools sends tools/list.
NotificationReturn(reply) ==
    /\ mnew.pc = "notifications/initialized"
    /\ mnew' = [mnew EXCEPT !.pc = "tools/list",
                            !.issued = Append(@, "tools/list"),
                            !.replies = Append(@, reply)]
    /\ UNCHANGED managerVars

\* refresh_tools: the request returns; on Ok the cache is filled, new
\* returns the server and connect inserts it under its name.
ToolsListReturn(reply) ==
    /\ mnew.pc = "tools/list"
    /\ IF reply.tag = "err"
       THEN ConstructionFails(reply)
       ELSE /\ mnew' = [mnew EXCEPT
                           !.pc = "returned",
                           !.replies = Append(@, reply),
                           !.tools = refresh_tools(@, reply.value),
                           !.res = McpOk("()")]
            /\ servers' = [servers EXCEPT ![mnew.name] =
                  McpServer(mnew.transport,
                            {mnew'.tools[i] : i \in DOMAIN mnew'.tools})]
            /\ UNCHANGED <<children, sent, mop>>

\* What McpServer::new gets from a transport.request that has returned res:
\* the result (value) or the error.
StartReply(res, value) ==
    IF res.tag = "ok" THEN McpOk(value) ELSE McpErr(res.error, <<>>)

\* connect_stdio on the transport it spawned: McpServer::new sends
\* initialize, the first request of the transport.
StartConnect(name) ==
    /\ mnew.pc = "none"
    /\ ConnectStart(name, "stdio")
    /\ RequestStart(1, FALSE)

\* initialize over stdio: the initialize request has returned; on Ok the
\* notification is sent with transport.request, as the next request.
StartInitializeReturn ==
    /\ mnew.pc = "initialize"
    /\ requests[1].pc = "returned"
    /\ InitializeReturn(StartReply(requests[1].res, "{}"))
    /\ IF requests[1].res.tag = "ok"
       THEN RequestStart(1, FALSE)
       ELSE UNCHANGED mcpVars

\* initialize over stdio: the request of the notification has returned,
\* and refresh_tools sends tools/list.
StartNotificationReturn ==
    /\ mnew.pc = "notifications/initialized"
    /\ requests[1].pc = "returned"
    /\ NotificationReturn(StartReply(requests[1].res, "null"))
    /\ RequestStart(1, FALSE)

\* refresh_tools over stdio: the tools/list request has returned.
StartToolsListReturn ==
    /\ mnew.pc = "tools/list"
    /\ requests[1].pc = "returned"
    /\ IF requests[1].res.tag = "ok"
       THEN \E listing \in ToolsListResults : ToolsListReturn(McpOk(listing))
       ELSE ToolsListReturn(StartReply(requests[1].res, NoToolsArray))
    /\ UNCHANGED mcpVars

\* The servers a manager holds after its connects: each name is not
\* connected, connected over stdio or connected over HTTP.
ServerSlots ==
    {NoServer, McpServer("stdio", {<<"a">>}), McpServer("http", McpToolNames)}

InitMcpManager ==
    /\ servers \in [ManagerServerNames -> ServerSlots]
    /\ children = [n \in ManagerServerNames |->
                      IF servers[n].transport = "stdio" THEN "running" ELSE "none"]
    /\ sent = [n \in ManagerServerNames |-> <<>>]
    /\ mop = NoManagerOp
    /\ mnew = NoConstruction

\* A manager without servers.
McpManagerAtRest ==
    /\ servers = [n \in ManagerServerNames |-> NoServer]
    /\ children = [n \in ManagerServerNames |-> "none"]
    /\ sent = [n \in ManagerServerNames |-> <<>>]
    /\ mop = NoManagerOp
    /\ mnew = NoConstruction

(***************************************************************************)
(*                     CONTEXT INJECTOR (context.rs)                       *)
(***************************************************************************)

\* Bounds: the messages of a request and the outputs of a hook result.
MaxCtxMessages == 3
MaxOutputs == 2

\* A text is a sequence of pieces; format! and push_str concatenate.
\* MessageContent::Text holds one text, MessageContent::Parts a list of
\* text parts.
TextContent(text) == [kind |-> "Text", parts |-> <<text>>]
PartsContent(parts) == [kind |-> "Parts", parts |-> parts]

ChatMessage(role, content) == [role |-> role, content |-> content]

ChatMessageShapes ==
    {ChatMessage("system", TextContent(<<"You are a helpful assistant.">>)),
     ChatMessage("user", TextContent(<<"Hello!">>)),
     ChatMessage("user", PartsContent(<<<<"Hello!">>>>)),
     ChatMessage("assistant", TextContent(<<"Hi.">>))}

\* The fields of a HookOutput the injector reads; an Option is the empty
\* sequence or a sequence of one value.
HookOutput(system_message, prompt) ==
    [system_message |-> system_message, prompt |-> prompt]

HookOutputShapes ==
    {HookOutput(<<>>, <<>>),
     HookOutput(<<"m1">>, <<>>), HookOutput(<<"m2">>, <<>>),
     HookOutput(<<>>, <<"p1">>), HookOutput(<<>>, <<"p2">>),
     HookOutput(<<"m1">>, <<"p1">>)}

\* The content inject_system_prefix is called with.
PrefixContents == {<<"<core_memory>">>}

wrap_system_reminder(content) ==
    <<"<system-reminder>\n">> \o content \o <<"\n</system-reminder>">>

\* HookResult::system_messages: filter_map over the outputs, in order.
RECURSIVE system_messages(_)
system_messages(outputs) ==
    IF outputs = <<>> THEN <<>>
    ELSE (IF Head(outputs).system_message # <<>>
          THEN <<Head(outputs).system_message[1]>> ELSE <<>>)
         \o system_messages(Tail(outputs))

\* system_messages.join("\n\n")
RECURSIVE JoinBlankLine(_)
JoinBlankLine(list) ==
    IF list = <<>> THEN <<>>
    ELSE IF Len(list) = 1 THEN <<list[1]>>
    ELSE <<list[1], "\n\n">> \o JoinBlankLine(Tail(list))

\* A modified_prompt in which the last output with a prompt wins.
RECURSIVE modified_prompt_LastWins(_)
modified_prompt_LastWins(outputs) ==
    IF outputs = <<>> THEN <<>>
    ELSE IF outputs[Len(outputs)].prompt # <<>> THEN outputs[Len(outputs)].prompt
    ELSE modified_prompt_LastWins(SubSeq(outputs, 1, Len(outputs) - 1))

\* HookResult::modified_prompt: find_map, the first output with a prompt.
RECURSIVE modified_prompt(_)
modified_prompt(outputs) ==
    IF outputs = <<>> THEN <<>>
    ELSE IF Head(outputs).prompt # <<>> THEN Head(outputs).prompt
    ELSE modified_prompt(Tail(outputs))

\* iter().rposition(|m| m.role == role): the last index, 0 for None.
rposition(list, role) ==
    IF \E i \in DOMAIN list : list[i].role = role
    THEN CHOOSE i \in DOMAIN list :
            /\ list[i].role = role
            /\ \A j \in DOMAIN list : list[j].role = role => j <= i
    ELSE 0

\* iter().position(|m| m.role == role): the first index, 0 for None.
position(list, role) ==
    IF \E i \in DOMAIN list : list[i].role = role
    THEN CHOOSE i \in DOMAIN list :
            /\ list[i].role = role
            /\ \A j \in DOMAIN list : list[j].role = role => i <= j
    ELSE 0

\* append_to_message: a text grows by a blank line and the content, a list
\* of parts by one text part.
append_to_message(message, content) ==
    IF message.content.kind = "Text"
    THEN [message EXCEPT !.content.parts[1] = @ \o <<"\n\n">> \o content]
    ELSE [message EXCEPT !.content.parts = Append(@, content)]

\* An inject that appends to the first user message.
inject_FirstUser(list, outputs) ==
    LET reminder == wrap_system_reminder(JoinBlankLine(system_messages(outputs)))
        first_user_idx == position(list, "user")
    IN  IF system_messages(outputs) = <<>> THEN list
        ELSE IF first_user_idx # 0
        THEN [list EXCEPT ![first_user_idx] = append_to_message(@, reminder)]
        ELSE Append(list, ChatMessage("system", TextContent(reminder)))

\* ContextInjector::inject
inject(list, outputs) ==
    LET reminder == wrap_system_reminder(JoinBlankLine(system_messages(outputs)))
        last_user_idx == rposition(list, "user")
    IN  IF system_messages(outputs) = <<>> THEN list
        ELSE IF last_user_idx # 0
        THEN [list EXCEPT ![last_user_idx] = append_to_message(@, reminder)]
        ELSE Append(list, ChatMessage("system", TextContent(reminder)))

\* ContextInjector::apply_prompt_modification
apply_prompt_modification(list, outputs) ==
    LET last_user == rposition(list, "user")
    IN  IF modified_prompt(outputs) # <<>> /\ last_user # 0
        THEN [list EXCEPT ![last_user].content =
                             TextContent(<<modified_prompt(outputs)[1]>>)]
        ELSE list

\* An inject_system_prefix that appends to the first system message
\* wherever it is.
inject_system_prefix_AnySystem(list, content) ==
    LET reminder == wrap_system_reminder(content)
        first_system == position(list, "system")
    IN  IF first_system # 0
        THEN [list EXCEPT ![first_system] = append_to_message(@, reminder)]
        ELSE <<ChatMessage("system", TextContent(reminder))>> \o list

\* ContextInjector::inject_system_prefix
inject_system_prefix(list, content) ==
    LET reminder == wrap_system_reminder(content)
    IN  IF list # <<>> /\ list[1].role = "system"
        THEN [list EXCEPT ![1] = append_to_message(@, reminder)]
        ELSE <<ChatMessage("system", TextContent(reminder))>> \o list

\* The call made on the request: none yet, or the function and its argument.
NoCtxCall == [op |-> "none", outputs |-> <<>>, content |-> <<>>]

ContextInject(outputs) ==
    /\ ctx_call = NoCtxCall
    /\ ctx_messages' = inject(ctx_messages, outputs)
    /\ ctx_call' = [op |-> "inject", outputs |-> outputs, content |-> <<>>]
    /\ UNCHANGED ctx_before

ContextApplyPromptModification(outputs) ==
    /\ ctx_call = NoCtxCall
    /\ ctx_messages' = apply_prompt_modification(ctx_messages, outputs)
    /\ ctx_call' = [op |-> "apply_prompt_modification", outputs |-> outputs,
                    content |-> <<>>]
    /\ UNCHANGED ctx_before

ContextInjectSystemPrefix(content) ==
    /\ ctx_call = NoCtxCall
    /\ ctx_messages' = inject_system_prefix(ctx_messages, content)
    /\ ctx_call' = [op |-> "inject_system_prefix", outputs |-> <<>>,
                    content |-> content]
    /\ UNCHANGED ctx_before

\* A request with any list of messages, before the injector is called.
InitContextInjector ==
    /\ ctx_messages \in ListsUpTo(ChatMessageShapes, MaxCtxMessages)
    /\ ctx_before = ctx_messages
    /\ ctx_call = NoCtxCall

\* An empty request.
ContextInjectorAtRest ==
    /\ ctx_messages = <<>>
    /\ ctx_before = <<>>
    /\ ctx_call = NoCtxCall

(***************************************************************************)
(*                             SPECIFICATIONS                              *)
(***************************************************************************)

InitHooks ==
    /\ InitHookEngine
    /\ CompactorAtRest /\ InitStdioTransport /\ InitMemoryDb /\ InitSessionManager
    /\ McpManagerAtRest
    /\ ContextInjectorAtRest

NextHooks ==
    \/ RunStart /\ UNCHANGED notHookVars
    \/ \E i \in 1..MaxHooks : HookExit(i) /\ UNCHANGED notHookVars
    \/ \E i \in 1..MaxHooks : HookWaitFail(i) /\ UNCHANGED notHookVars
    \/ \E i \in 1..MaxHooks : HookTimeout(i) /\ UNCHANGED notHookVars
    \/ \E i \in 1..MaxHooks : OrphanExit(i) /\ UNCHANGED notHookVars
    \/ RunJoin /\ UNCHANGED notHookVars

SpecHooks == InitHooks /\ [][NextHooks]_vars

InitCompact ==
    /\ InitCompactor
    /\ HookEngineAtRest /\ InitStdioTransport /\ InitMemoryDb /\ InitSessionManager
    /\ McpManagerAtRest
    /\ ContextInjectorAtRest

NextCompact == Compact /\ UNCHANGED notCompactVars

SpecCompact == InitCompact /\ [][NextCompact]_vars

\* Configurations around the threshold: with 4942 tokens of context the
\* effective threshold is 104, the estimate of a request of one short
\* message.
ThresholdConfigs ==
    [max_context_tokens : {1000, 4942, 6000}, threshold_pct : {85},
     preserve_recent : {1}, preserve_system : {TRUE},
     preserve_tool_calls : BOOLEAN]

InitAnalyze ==
    /\ ccfg \in ThresholdConfigs
    /\ request \in MessageLists(MaxMsgs)
    /\ before = <<>>
    /\ cres = [tag |-> "none"]
    /\ hook_engine \in HookEngines
    /\ hook_runs = 0
    /\ again = NotAgain
    /\ HookEngineAtRest /\ InitStdioTransport /\ InitMemoryDb /\ InitSessionManager
    /\ McpManagerAtRest
    /\ ContextInjectorAtRest

SpecAnalyze == InitAnalyze /\ [][NextCompact]_vars

NextRecompact ==
    \/ Compact /\ UNCHANGED notCompactVars
    \/ CompactAgain /\ UNCHANGED notCompactVars

\* Compactors that preserve system messages, without an engine or with the
\* engine whose hook blocks.
InitRecompact ==
    /\ InitCompact
    /\ ccfg.preserve_system
    /\ hook_engine \in {"None", "exits 2"}

SpecRecompact == InitRecompact /\ [][NextRecompact]_vars

InitMcp ==
    /\ InitStdioTransport
    /\ HookEngineAtRest /\ CompactorAtRest /\ InitMemoryDb /\ InitSessionManager
    /\ McpManagerAtRest
    /\ ContextInjectorAtRest

NextMcp ==
    \/ \E c \in Callers, timed \in BOOLEAN :
          RequestStart(c, timed) /\ UNCHANGED notMcpVars
    \/ \E c \in Callers : RequestWrite(c) /\ UNCHANGED notMcpVars
    \/ \E c \in Callers : RequestRead(c) /\ UNCHANGED notMcpVars
    \/ \E c \in Callers : RequestReadEof(c) /\ UNCHANGED notMcpVars
    \/ \E c \in Callers : CallTimeout(c) /\ UNCHANGED notMcpVars
    \/ ServerRespond /\ UNCHANGED notMcpVars
    \/ ServerExit /\ UNCHANGED notMcpVars

SpecMcp == InitMcp /\ [][NextMcp]_vars

\* A connection that one caller uses without end, call after call, to a
\* server that stays up and answers every request in order.  A call is
\* abandoned only while no abandoned request is waiting to be recovered
\* from.
NextMcpLive ==
    \/ \E timed \in BOOLEAN :
          RequestStartWrapping(1, timed) /\ UNCHANGED notMcpVars
    \/ RequestWrite(1) /\ UNCHANGED notMcpVars
    \/ RequestRead(1) /\ UNCHANGED notMcpVars
    \/ abandoned # "yes" /\ CallTimeout(1) /\ UNCHANGED notMcpVars
    \/ ServerRespond /\ UNCHANGED notMcpVars

\* The caller goes on calling, it takes the mutex and reads a line when it
\* can, and the server answers.
FairMcpLive ==
    /\ WF_vars(\E timed \in BOOLEAN :
                  RequestStartWrapping(1, timed) /\ UNCHANGED notMcpVars)
    /\ WF_vars(RequestWrite(1) /\ UNCHANGED notMcpVars)
    /\ WF_vars(RequestRead(1) /\ UNCHANGED notMcpVars)
    /\ WF_vars(ServerRespond /\ UNCHANGED notMcpVars)

SpecMcpLive == InitMcp /\ [][NextMcpLive]_vars /\ FairMcpLive

InitMemory ==
    /\ InitMemoryDb
    /\ HookEngineAtRest /\ CompactorAtRest /\ InitStdioTransport /\ InitSessionManager
    /\ McpManagerAtRest
    /\ ContextInjectorAtRest

NextMemory ==
    \/ \E content \in Contents, tags \in TagLists :
          memory_save(content, tags) /\ UNCHANGED <<coreVars, notMemoryVars>>
    \/ \E id \in 1..MaxEntries, content \in Contents :
          memory_update(id, content) /\ UNCHANGED <<coreVars, notMemoryVars>>
    \/ \E id \in 1..MaxEntries : memory_delete(id) /\ UNCHANGED <<coreVars, notMemoryVars>>
    \/ clear_archival_memory /\ UNCHANGED <<coreVars, notMemoryVars>>
    \/ \E q \in Queries, limit \in Limits :
          memory_search(q, limit) /\ UNCHANGED <<coreVars, notMemoryVars>>

SpecMemory == InitMemory /\ [][NextMemory]_vars

\* The store with core memory and reset_all.  One connection runs one call
\* at a time, so no other call starts while reset_all is in its batch.
NextCore ==
    \/ /\ reset.pc = "idle"
       /\ memory_save({"rust"}, {})
       /\ UNCHANGED <<coreVars, notMemoryVars>>
    \/ /\ reset.pc = "idle"
       /\ \E id \in 1..MaxEntries : memory_delete(id)
       /\ UNCHANGED <<coreVars, notMemoryVars>>
    \/ /\ reset.pc = "idle"
       /\ clear_archival_memory
       /\ UNCHANGED <<coreVars, notMemoryVars>>
    \/ /\ reset.pc = "idle"
       /\ \E section \in SectionArgs, content \in CoreContents :
             update_core_memory(section, content)
       /\ UNCHANGED notMemoryVars
    \/ reset_all /\ UNCHANGED notMemoryVars
    \/ /\ reset.pc = "idle"
       /\ open
       /\ UNCHANGED notMemoryVars
    \/ ResetDeleteArchival /\ UNCHANGED notMemoryVars
    \/ ResetDeleteCore /\ UNCHANGED notMemoryVars
    \/ ResetInsertCore /\ UNCHANGED notMemoryVars
    \/ ResetFails /\ UNCHANGED notMemoryVars

SpecCore == InitMemory /\ [][NextCore]_vars

InitSession ==
    /\ InitSessionManager
    /\ HookEngineAtRest /\ CompactorAtRest /\ InitStdioTransport /\ InitMemoryDb
    /\ McpManagerAtRest
    /\ ContextInjectorAtRest

NextSession ==
    \/ get_or_create_session /\ UNCHANGED notSessionVars
    \/ \E handoff_notes \in NotesOptions :
          end_session(handoff_notes) /\ UNCHANGED notSessionVars


SpecSession == InitSession /\ [][NextSession]_vars

InitCleanup ==
    /\ InitSessionManagerOnLeftDirectory
    /\ HookEngineAtRest /\ CompactorAtRest /\ InitStdioTransport /\ InitMemoryDb
    /\ McpManagerAtRest
    /\ ContextInjectorAtRest

NextCleanup ==
    \E keep_count \in KeepCounts :
       cleanup_old_sessions(keep_count) /\ UNCHANGED notSessionVars

SpecCleanup == InitCleanup /\ [][NextCleanup]_vars

InitManager ==
    /\ InitMcpManager
    /\ HookEngineAtRest /\ CompactorAtRest /\ InitStdioTransport /\ InitMemoryDb
    /\ InitSessionManager
    /\ ContextInjectorAtRest

NextManager ==
    \/ \E full_name \in FullNames, arguments \in ToolArguments, timed \in BOOLEAN :
          ManagerCallTool(full_name, arguments, timed) /\ UNCHANGED notManagerVars
    \/ ManagerCallReturn /\ UNCHANGED notManagerVars
    \/ ManagerCallTimeout /\ UNCHANGED notManagerVars
    \/ \E name \in DisconnectNames :
          ManagerDisconnect(name) /\ UNCHANGED notManagerVars
    \/ \E name \in ManagerServerNames :
          ManagedChildExit(name) /\ UNCHANGED notManagerVars

SpecManager == InitManager /\ [][NextManager]_vars

\* The manager with closes that can fail.
NextShutdown ==
    \/ \E full_name \in FullNames, arguments \in ToolArguments, timed \in BOOLEAN :
          ManagerCallTool(full_name, arguments, timed) /\ UNCHANGED notManagerVars
    \/ ManagerCallReturn /\ UNCHANGED notManagerVars
    \/ ManagerCallTimeout /\ UNCHANGED notManagerVars
    \/ \E name \in DisconnectNames :
          ManagerDisconnect(name) /\ UNCHANGED notManagerVars
    \/ \E name \in ManagerServerNames :
          ManagerDisconnectCloseFails(name) /\ UNCHANGED notManagerVars
    \/ \E names \in KeyOrders(servers), fails \in SUBSET ManagerServerNames :
          ManagerDisconnectAll(names, fails) /\ UNCHANGED notManagerVars
    \/ \E name \in ManagerServerNames :
          ManagedChildExit(name) /\ UNCHANGED notManagerVars

SpecShutdown == InitManager /\ [][NextShutdown]_vars

InitConnect ==
    /\ McpManagerAtRest
    /\ HookEngineAtRest /\ CompactorAtRest /\ InitStdioTransport /\ InitMemoryDb
    /\ InitSessionManager
    /\ ContextInjectorAtRest

NextConnect ==
    \/ \E name \in ManagerServerNames, transport \in {"stdio", "http"} :
          ConnectStart(name, transport) /\ UNCHANGED notConnectVars
    \/ \E reply \in InitializeReplies :
          InitializeReturn(reply) /\ UNCHANGED notConnectVars
    \/ \E reply \in NotificationReplies :
          NotificationReturn(reply) /\ UNCHANGED notConnectVars
    \/ \E reply \in ToolsListReplies :
          ToolsListReturn(reply) /\ UNCHANGED notConnectVars

SpecConnect == InitConnect /\ [][NextConnect]_vars

\* A session start over stdio, request by request.  The request of the
\* notification is the second one of the transport, with id 2: the server
\* answers it like any request, or it takes it for the notification it is
\* and sends nothing.
notStartVars == <<hookVars, compactVars, memoryVars, sessionVars, contextVars>>

InitStart ==
    /\ \E q \in {0, 2} : SpawnServer(q)
    /\ McpManagerAtRest
    /\ HookEngineAtRest /\ CompactorAtRest /\ InitMemoryDb /\ InitSessionManager
    /\ ContextInjectorAtRest

NextStart ==
    \/ \E name \in ManagerServerNames : StartConnect(name) /\ UNCHANGED notStartVars
    \/ RequestWrite(1) /\ UNCHANGED notMcpVars
    \/ RequestRead(1) /\ UNCHANGED notMcpVars
    \/ RequestReadEof(1) /\ UNCHANGED notMcpVars
    \/ ServerRespond /\ UNCHANGED notMcpVars
    \/ ServerExit /\ UNCHANGED notMcpVars
    \/ StartInitializeReturn /\ UNCHANGED notStartVars
    \/ StartNotificationReturn /\ UNCHANGED notStartVars
    \/ StartToolsListReturn /\ UNCHANGED notStartVars

\* McpServer::new and the server run on; the server need not exit.
FairStart ==
    /\ WF_vars(RequestWrite(1) /\ UNCHANGED notMcpVars)
    /\ WF_vars(RequestRead(1) /\ UNCHANGED notMcpVars)
    /\ WF_vars(RequestReadEof(1) /\ UNCHANGED notMcpVars)
    /\ WF_vars(ServerRespond /\ UNCHANGED notMcpVars)
    /\ WF_vars(StartInitializeReturn /\ UNCHANGED notStartVars)
    /\ WF_vars(StartNotificationReturn /\ UNCHANGED notStartVars)
    /\ WF_vars(StartToolsListReturn /\ UNCHANGED notStartVars)

SpecStart == InitStart /\ [][NextStart]_vars /\ FairStart

InitContext ==
    /\ InitContextInjector
    /\ HookEngineAtRest /\ CompactorAtRest /\ InitStdioTransport /\ InitMemoryDb
    /\ InitSessionManager
    /\ McpManagerAtRest

NextContext ==
    \/ \E outputs \in ListsUpTo(HookOutputShapes, MaxOutputs) :
          ContextInject(outputs) /\ UNCHANGED notContextVars
    \/ \E outputs \in ListsUpTo(HookOutputShapes, MaxOutputs) :
          ContextApplyPromptModification(outputs) /\ UNCHANGED notContextVars
    \/ \E content \in PrefixContents :
          ContextInjectSystemPrefix(content) /\ UNCHANGED notContextVars

SpecContext == InitContext /\ [][NextContext]_vars

(* ------------------------- claims on the hook engine ------------------- *)

\* C1: when run has returned, allowed is false if and only if some hook that
\* completed with an output had exit code 2 or decision "deny"/"block"; and a
\* single command hook that exits 2 with no decision yields allowed = false,
\* one output without a decision and no error.
C1_MergeRule ==
    runpc = "returned" =>
        /\ (result.allowed = FALSE) <=> (\E i \in DOMAIN hookRes : Blocks(hookRes[i]))
        /\ (Len(hookRes) = 1 /\ hookRes[1] = OkRes(DefaultOutput, 2)) =>
              /\ result.allowed = FALSE
              /\ Len(result.outputs) = 1
              /\ result.outputs[1].decision = None
              /\ result.errors = <<>>

\* C1 witness: a run of one command hook that exited 2 with blank stdout has
\* returned blocked.
C1_Witness ==
    /\ runpc = "returned"
    /\ Len(hookRes) = 1
    /\ hookRes[1] = OkRes(DefaultOutput, 2)
    /\ result.allowed = FALSE

\* C2: when run has returned, every failed hook has its error in errors, every
\* completed hook has its output in outputs, and allowed is false only if a
\* completed hook blocks: failures alone never clear the flag.
C2_FailuresNeverBlock ==
    runpc = "returned" =>
        /\ \A i \in DOMAIN hookRes :
              hookRes[i].tag = "err" =>
                 \E k \in DOMAIN result.errors :
                    /\ result.errors[k].hook = i
                    /\ result.errors[k].kind = hookRes[i].error.kind
        /\ \A i \in DOMAIN hookRes :
              hookRes[i].tag = "ok" =>
                 \E k \in DOMAIN result.outputs :
                    /\ result.outputs[k].hook = i
                    /\ result.outputs[k].decision = hookRes[i].output.decision
        /\ Len(result.outputs) + Len(result.errors) = Len(hookRes)
        /\ (\A i \in DOMAIN hookRes : ~Blocks(hookRes[i])) => result.allowed

\* C2 witness: a run has returned allowed with a timed-out hook, a hook that
\* failed to run, and the output of another hook collected after them.
C2_Witness ==
    /\ runpc = "returned"
    /\ Len(hookRes) = 2
    /\ hookRes[1].tag = "err"
    /\ hookRes[2].tag = "ok"
    /\ result.allowed
    /\ Len(result.errors) = 1
    /\ Len(result.outputs) = 1

\* The hooks that produced an output, in the order in which they completed.
CompletedOk == SelectSeq(completed, LAMBDA i : hookRes[i].tag = "ok")

\* C9 as stated: the outputs are in the order in which the hooks completed.
C9_CompletionOrder ==
    runpc = "returned" => HookIndices(result.outputs) = CompletedOk

\* C9 amended: the outputs are in submission order (the order of
\* hooks_to_run), whatever the order in which the hooks completed.
C9_SubmissionOrder ==
    runpc = "returned" =>
        \A k, l \in DOMAIN result.outputs :
            k < l => result.outputs[k].hook < result.outputs[l].hook

\* C9 witness: the second hook completed before the first, both with an
\* output, and run has returned the outputs of hook 1 then hook 2.
C9_Witness ==
    /\ runpc = "returned"
    /\ completed = <<2, 1>>
    /\ HookIndices(result.outputs) = <<1, 2>>

\* C10: once run has returned with the Timeout error of a hook, that hook's
\* child process is no longer running.
C10_TimeoutKillsChild ==
    runpc = "returned" =>
        \A k \in DOMAIN result.errors :
            result.errors[k].kind = "Timeout" =>
                child[result.errors[k].hook] # "running"

\* An entry whose hooks are due for a context: it has no matcher, or its
\* matcher is a valid, non-empty pattern that matches the context.
EntryApplies(entry, context) ==
    \/ entry.matcher = None
    \/ /\ entry.matcher # ""
       /\ RegexValid(entry.matcher)
       /\ RegexIsMatch(entry.matcher, context)

\* An entry whose matcher is the empty pattern or an invalid regex.
EntryInvalid(entry) ==
    /\ entry.matcher # None
    /\ entry.matcher = "" \/ ~RegexValid(entry.matcher)

\* The entries the code reads for the event of the run.
EntriesRead == get_entries_for_event(config, event)

\* C11: once run has started its hooks, the hooks run are exactly those of the
\* entries that have no matcher or a matching matcher, so none of an entry
\* with an empty or invalid matcher and all of every other due entry; and a
\* run in which no hook blocks returns allowed, whatever invalid entries the
\* event has.
C11_InvalidEntrySkipped ==
    runpc # "idle" =>
        /\ Len(hookRes) =
              Len(FlattenHooks(SelectSeq(EntriesRead,
                      LAMBDA en : EntryApplies(en, get_matcher_context(input, event)))))
        /\ (\A k \in DOMAIN EntriesRead : EntryInvalid(EntriesRead[k])) =>
              hookRes = <<>>
        /\ (runpc = "returned" /\ \A i \in DOMAIN hookRes : ~Blocks(hookRes[i])) =>
              result.allowed

\* C11 witness: an event with an invalid entry followed by an entry without
\* matcher has returned allowed, having run the one hook of the second
\* entry only.
C11_Witness ==
    /\ runpc = "returned"
    /\ Len(EntriesRead) = 2
    /\ EntryInvalid(EntriesRead[1])
    /\ EntriesRead[2].matcher = None
    /\ Len(hookRes) = 1
    /\ hookRes[1].tag = "ok"
    /\ result.allowed

\* C12: for every event kind, run dispatches the entries configured for the
\* event: it has returned allowed without running anything only if the
\* event has no entry configured or none of its entries is due.
C12_EveryEventDispatches ==
    (runpc = "returned" /\ hookRes = <<>> /\ result = HookResultAllowed) =>
        \A k \in DOMAIN config[event] :
            ~EntryApplies(config[event][k], get_matcher_context(input, event))

\* C13: a command hook that exited with a code other than 0 or 2 is reported
\* among the errors of the result, not among its outputs, and does not block.
C13_OtherExitCodeIsError ==
    runpc = "returned" =>
        \A i \in DOMAIN hookRes :
            (hookRes[i].tag = "ok" /\ hookRes[i].exit_code \notin {0, 2}) =>
                /\ \E k \in DOMAIN result.errors : result.errors[k].hook = i
                /\ \A k \in DOMAIN result.outputs : result.outputs[k].hook # i


\* The number of hooks of a list of entries.
RECURSIVE HookCount(_)
HookCount(es) ==
    IF es = <<>> THEN 0 ELSE Len(Head(es).hooks) + HookCount(Tail(es))

\* C37: when run has returned, the outputs and the errors of the result
\* are together as many as the hooks of the entries that matched, and each
\* of these hooks has exactly one output or exactly one error in the
\* result, never both and never neither.
C37_EveryHookAccounted ==
    runpc = "returned" =>
        LET n == HookCount(MatchingEntries(config, event, input))
            outs(i) == {k \in DOMAIN result.outputs : result.outputs[k].hook = i}
            errs(i) == {k \in DOMAIN result.errors : result.errors[k].hook = i}
        IN  /\ Len(result.outputs) + Len(result.errors) = n
            /\ \A i \in 1..n : Cardinality(outs(i)) + Cardinality(errs(i)) = 1
            /\ \A k \in DOMAIN result.outputs : result.outputs[k].hook \in 1..n
            /\ \A k \in DOMAIN result.errors : result.errors[k].hook \in 1..n

\* C37 witness: of two hooks one exited with code 2 and has its output in
\* the result, the other timed out and has its error there.
C37_Witness ==
    /\ runpc = "returned"
    /\ Len(hookRes) = 2
    /\ Len(result.outputs) = 1
    /\ Len(result.errors) = 1
    /\ \E i \in DOMAIN hookRes :
          /\ hookRes[i].tag = "ok"
          /\ hookRes[i].exit_code = 2
          /\ result.outputs[1].hook = i
    /\ result.errors[1].kind = "Timeout"

(* ---------------------- claims on the context compactor ---------------- *)

\* C3: when compact fails with Failed (the new estimate is not below the
\* original), the caller's message list is as it was before the call.
C3_FailedLeavesRequest ==
    (cres.tag = "err" /\ cres.error = "Failed") => request = before

\* The messages of the original list at the messages_to_preserve indices.
PreservedOfBefore ==
    LET P == analyze(ccfg, before).messages_to_preserve
    IN  [k \in 1..Len(P) |-> before[P[k] + 1]]

\* C4: compact has returned either Ok with compacted = false and the request
\* as it was (compaction not needed, or nothing to summarise), or Ok with
\* compacted = true, new_tokens < original_tokens and a list made of the
\* preserved system messages, one new system message carrying the summary,
\* and the preserved non-system messages, or an error.
C4_CompactOutcomes ==
    cres.tag # "none" =>
        \/ /\ cres.tag = "ok"
           /\ ~cres.compacted
           /\ request = before
           /\ \/ ~analyze(ccfg, before).needs_compaction
              \/ analyze(ccfg, before).messages_to_summarize = <<>>
        \/ /\ cres.tag = "ok"
           /\ cres.compacted
           /\ cres.new_tokens < cres.original_tokens
           /\ cres.original_tokens = estimate_request_tokens(before)
           /\ cres.new_tokens = estimate_request_tokens(request)
           /\ LET kept == PreservedOfBefore
                  sys == SelectSeq(kept, LAMBDA m : m.role = "system")
                  rest == SelectSeq(kept, LAMBDA m : m.role # "system")
                  n == Len(sys)
              IN  /\ Len(request) = Len(kept) + 1
                  /\ SubSeq(request, 1, n) = sys
                  /\ request[n + 1].role = "system"
                  /\ request[n + 1].content = cres.summary
                  /\ ~request[n + 1].tool_calls
                  /\ ~request[n + 1].tool_call_id
                  /\ SubSeq(request, n + 2, Len(request)) = rest
        \/ cres.tag = "err"

\* C4 witness: compact has compacted a request, keeping a system message in
\* front of the summary and a non-system message after it.
C4_Witness ==
    /\ cres.tag = "ok"
    /\ cres.compacted
    /\ Len(before) = 3
    /\ Len(request) = 3
    /\ request[1] = before[1]
    /\ request[1].role = "system"
    /\ request[2].content = cres.summary
    /\ request[3] = before[3]
    /\ request[3].role = "user"

\* C14: when compaction is needed and the engine's PreCompact hook blocks
\* (exit code 2), compact has failed with HookBlocked and the request is as
\* it was before the call.
C14_PreCompactBlocks ==
    (/\ cres.tag # "none"
     /\ analyze(ccfg, before).needs_compaction
     /\ hook_engine = "exits 2"
     /\ config["pre_compact"] # <<>>) =>
        /\ cres = CompactionErr("HookBlocked")
        /\ request = before

\* A list with its j-th element taken out.
Without(list, j) == SubSeq(list, 1, j - 1) \o SubSeq(list, j + 1, Len(list))

\* C15: after a successful compact, the new list is the preserved messages
\* of the original, in their original order, with one message (the
\* summary) put in somewhere.
C15_OriginalOrderKept ==
    (cres.tag = "ok" /\ cres.compacted) =>
        \E j \in DOMAIN request : Without(request, j) = PreservedOfBefore

\* Every tool-role message of the list carries a tool_call_id that matches a
\* tool call of an earlier assistant message (the model has one call id).
ToolCallIntegrity(msgs) ==
    \A i \in DOMAIN msgs :
        msgs[i].role = "tool" =>
            /\ msgs[i].tool_call_id
            /\ \E j \in 1..(i - 1) : msgs[j].role = "assistant" /\ msgs[j].tool_calls

\* C16: if the input list has tool-call integrity, so has the list after a
\* successful compact, under every configuration.
C16_ToolCallIntegrityKept ==
    (cres.tag = "ok" /\ cres.compacted /\ ToolCallIntegrity(before)) =>
        ToolCallIntegrity(request)

\* The 0-based index i0 occurs in the list of indices.
Listed(idx, i0) == \E k \in DOMAIN idx : idx[k] = i0

\* The list of indices is in ascending order, without repeats.
Ascending(idx) == \A j, k \in DOMAIN idx : j < k => idx[j] < idx[k]

\* C32: for the request compact was called on, categorize_messages lists
\* index i under preserve if and only if (preserve_system and the role is
\* system) or i >= len - preserve_recent or (preserve_tool_calls and the
\* message is a tool message, has tool_calls or has a tool_call_id), and
\* under summarize otherwise; no index is in both lists, every index of
\* 0..len-1 is in one, and each list is ascending.
C32_CategorizeMessages ==
    cres.tag # "none" =>
        LET cat == categorize_messages(ccfg, before)
            len == Len(before)
            kept(i) ==
                \/ ccfg.preserve_system /\ before[i + 1].role = "system"
                \/ i >= len - ccfg.preserve_recent
                \/ ccfg.preserve_tool_calls
                      /\ \/ before[i + 1].role = "tool"
                         \/ before[i + 1].tool_calls
                         \/ before[i + 1].tool_call_id
        IN  /\ \A i \in 0..(len - 1) :
                  /\ Listed(cat.preserve, i) <=> kept(i)
                  /\ Listed(cat.summarize, i) <=> ~kept(i)
            /\ \A k \in DOMAIN cat.preserve : cat.preserve[k] \in 0..(len - 1)
            /\ \A k \in DOMAIN cat.summarize : cat.summarize[k] \in 0..(len - 1)
            /\ Len(cat.preserve) + Len(cat.summarize) = len
            /\ Ascending(cat.preserve)
            /\ Ascending(cat.summarize)

\* C32 witness: of three messages the first and the third are preserved,
\* the third as the one recent message, and the second is summarised.
C32_Witness ==
    /\ cres.tag # "none"
    /\ Len(before) = 3
    /\ ccfg.preserve_recent = 1
    /\ categorize_messages(ccfg, before).preserve = <<0, 2>>
    /\ categorize_messages(ccfg, before).summarize = <<1>>

C38_CompactTwice ==
    (/\ again.tag = "done"
     /\ cres.tag = "ok"
     /\ cres.compacted
     /\ ccfg.preserve_system) =>
        /\ again.messages_to_summarize = <<>>
        /\ again.res.tag = "ok"
        /\ ~again.res.compacted
        /\ request = again.request_before

\* C38 witness: the first compact summarised, the second still found the
\* request over the threshold and returned it as it was.
C38_Witness ==
    /\ again.tag = "done"
    /\ cres.tag = "ok"
    /\ cres.compacted
    /\ ccfg.preserve_system
    /\ analyze(ccfg, again.request_before).needs_compaction
    /\ Len(request) >= 3
    /\ request = again.request_before
    /\ ~again.res.compacted

(* ---------------------- claims on the MCP stdio transport -------------- *)

\* C5: a request that has returned Ok read a result line whose id is the id
\* of the request it sent, and returns the result of that very request; a
\* request that read a response line with any other id has returned the
\* Protocol error "Response ID mismatch".
C5_ResultOnlyForOwnId ==
    \A c \in Callers :
        requests[c].pc = "returned" =>
            /\ requests[c].res.tag = "ok" =>
                  /\ requests[c].read.kind = "result"
                  /\ requests[c].read.id = requests[c].id
                  /\ requests[c].res.value = requests[c].id
            /\ (requests[c].read.kind \in {"result", "error"}
                    /\ requests[c].read.id # requests[c].id) =>
                  requests[c].res = McpErr("Protocol", "Response ID mismatch")

\* One request has returned the result of its own response, and another has
\* read the result line of a different request and failed on the id.
C5_Witness ==
    \E c, d \in Callers :
        /\ requests[c].pc = "returned" /\ requests[c].res = McpOk(requests[c].id)
        /\ requests[d].pc = "returned"
        /\ requests[d].read.kind = "result"
        /\ requests[d].read.id # requests[d].id
        /\ requests[d].res = McpErr("Protocol", "Response ID mismatch")

\* C6: at most one request is outstanding on the connection: written to the
\* server and not yet answered by it.
C6_OneOutstanding == Len(child_stdin) <= 1

\* The call of c is abandoned in this step: its request was written, it
\* was waiting for the response, and it returns Timeout.
TimeoutAfterWrite(c) ==
    /\ requests[c].pc = "reading"
    /\ requests'[c].pc = "returned"
    /\ requests'[c].res = McpErr("Timeout", "")

\* The call of c reads, in this step, the response to the request of a call
\* that has returned Timeout.
ReadsAbandonedResponse(c) ==
    /\ requests[c].pc = "reading"
    /\ requests'[c].pc = "returned"
    /\ requests'[c].read.kind \in {"result", "error"}
    /\ \E d \in Callers \ {c} :
          /\ requests[d].res = McpErr("Timeout", "")
          /\ requests[d].id = requests'[c].read.id

\* C29: when a call returns Timeout after its request was written, the
\* request stays in flight (it is still with the server or its response is
\* on the server's stdout), nothing is taken back or written again, no new
\* id is taken and the mutex is free for the next call; and a call that
\* reads the response to an abandoned request returns the Protocol error
\* "Response ID mismatch".
C29_AbandonedRequestStaysInFlight ==
    [][\A c \in Callers :
          /\ TimeoutAfterWrite(c) =>
                /\ child_stdin' = child_stdin
                /\ child_stdout' = child_stdout
                /\ request_id' = request_id
                /\ childLock' = Unlocked
                /\ \/ \E i \in DOMAIN child_stdin' : child_stdin'[i] = requests[c].id
                   \/ \E i \in DOMAIN child_stdout' :
                         child_stdout'[i].id = requests[c].id
          /\ ReadsAbandonedResponse(c) =>
                requests'[c].res = McpErr("Protocol", "Response ID mismatch")]_vars

\* C29 witness: a call returned Timeout, the server answered its request
\* afterwards, and the call with the next id read that answer and failed
\* on the id.
C29_Witness ==
    \E c, d \in Callers :
        /\ requests[d].pc = "returned"
        /\ requests[d].res = McpErr("Timeout", "")
        /\ requests[c].pc = "returned"
        /\ requests[c].id = requests[d].id + 1
        /\ requests[c].read = ResultLine(requests[d].id)
        /\ requests[c].res = McpErr("Protocol", "Response ID mismatch")

\* The call of c writes its request in this step.
Writes(c) ==
    /\ requests[c].pc = "locking"
    /\ requests'[c].pc = "reading"

\* The call of c takes its id in this step.
TakesId(c) ==
    /\ requests[c].pc \in {"idle", "returned"}
    /\ requests'[c].pc = "locking"

\* C36 as stated: each id written to the server's stdin is greater than
\* every id written before it.
C36_IdsIncreaseOnWire ==
    [][\A c \in Callers :
          Writes(c) => \A w \in written : w < requests[c].id]_vars

\* C36, amended: the ids are taken in strictly increasing order (each id
\* taken is greater than every id taken or written before it) and no id is
\* written twice; a written id is one that was taken, below the counter.
C36_IdsUniqueOnWire ==
    [][\A c \in Callers :
          /\ TakesId(c) =>
                /\ request_id' > request_id
                /\ requests'[c].id = request_id
                /\ \A w \in written : w < requests'[c].id
                /\ \A d \in Callers \ {c} : requests[d].id < requests'[c].id
          /\ Writes(c) =>
                /\ requests[c].id \notin written
                /\ requests[c].id \in 1..(request_id - 1)
                /\ written' = written \cup {requests[c].id}
                /\ child_stdin' = Append(child_stdin, requests[c].id)]_vars

\* C36 witness: the request written last has a smaller id than a request
\* written before it: its caller took the id first and the mutex second.
C36_Witness ==
    \E c \in Callers :
        /\ requests[c].pc = "reading"
        /\ requests[c].id \in written
        /\ \E w \in written : w > requests[c].id

\* C34: after a call was abandoned with its request written, some call
\* eventually reads its own response (and returns Ok when the response
\* carries a result).
C34_RecoversAfterTimeout == (abandoned = "yes") ~> (abandoned = "recovered")

(* ------------------------ claims on the memory store ------------------- *)

\* The rows whose current content or tags hold every term of q.
CurrentMatches(q) ==
    {id \in DOMAIN archival_memory : q \subseteq RowTokens(archival_memory[id])}

\* C7: after any sequence of memory_save, memory_update, memory_delete and
\* clear_archival_memory, for every query the rows memory_search selects are
\* exactly the rows whose current content or tags match it, and a
\* memory_search whose limit is at least the number of entries has returned
\* exactly those rows.
C7_SearchAgreesWithTable ==
    /\ \A q \in Queries : SearchHits(q) = CurrentMatches(q)
    /\ (memOp.op = "memory_search"
            /\ memOp.limit >= Cardinality(DOMAIN archival_memory)) =>
          memOp.ids = CurrentMatches(memOp.query)

\* A search with a large enough limit, made right after an update, has
\* returned an entry that matches now and has left out the updated entry,
\* which matched the term only through its content before the update.
C7_Witness ==
    /\ memOp.op = "memory_search"
    /\ memOp.limit >= Cardinality(DOMAIN archival_memory)
    /\ memOp.ids # {}
    /\ \E p \in unindexed :
          /\ memOp.query = {p[2]}
          /\ p[1] \in DOMAIN archival_memory
          /\ p[1] \notin memOp.ids

\* C23: the ids returned by memory_save are strictly increasing in call
\* order, whatever was deleted, cleared or reset in between, and the first
\* is 1.
C23_IdsMonotonic ==
    /\ \A i, j \in DOMAIN saved_ids : i < j => saved_ids[i] < saved_ids[j]
    /\ saved_ids # <<>> => saved_ids[1] = 1

\* C23 witness: the last call was a memory_save that returned 2 into a
\* table from which row 1 had been removed.
C23_Witness ==
    /\ memOp.op = "memory_save"
    /\ saved_ids = <<1, 2>>
    /\ DOMAIN archival_memory = {2}

\* C24: when reset_all has returned Ok, archival memory is empty and core
\* memory is the three default sections; when it has returned an error,
\* archival and core memory are as they were before the call, so that
\* archival memory is not wiped with core memory missing a section.
C24_ResetAllOrNothing ==
    (memOp.op = "reset_all" /\ reset.pc = "idle") =>
        IF memOp.ok
        THEN archival_memory = <<>> /\ core_memory = DefaultCore
        ELSE /\ archival_memory = reset.archival_memory
             /\ core_memory = reset.core_memory
             /\ CoreSections \subseteq DOMAIN core_memory

\* C25: after every operation core memory holds exactly the sections
\* persona, project_info and user_preferences, and the archival operations
\* leave core memory as it was.
C25_CoreSectionsFixed ==
    [][/\ reset'.pc = "idle" => DOMAIN core_memory' = CoreSections
       /\ (reset.pc = "idle" /\ reset'.pc = "idle"
              /\ memOp'.op \in {"memory_save", "memory_update", "memory_delete",
                                "memory_search", "clear_archival_memory"}) =>
             core_memory' = core_memory]_vars

\* C39: a re-open leaves the archival entries, their index and the next id
\* as they were, leaves the content of every core section that has a row
\* as it was, and gives the sections persona, project_info and
\* user_preferences that have no row their default content.
C39_ReopenKeepsMemory ==
    [][(reset.pc = "idle" /\ reset'.pc = "idle" /\ memOp'.op = "open") =>
          /\ archival_memory' = archival_memory
          /\ fts' = fts
          /\ next_rowid' = next_rowid
          /\ DOMAIN core_memory' = DOMAIN core_memory \cup CoreSections
          /\ \A section \in DOMAIN core_memory' :
                core_memory'[section] =
                    IF section \in DOMAIN core_memory
                    THEN core_memory[section]
                    ELSE DefaultCore[section]]_vars

\* C39 witness: the store was re-opened with an archival entry and with an
\* updated persona, and both are there.
C39_Witness ==
    /\ memOp.op = "open"
    /\ reset.pc = "idle"
    /\ archival_memory # <<>>
    /\ core_memory["persona"] = "updated"
    /\ core_memory["project_info"] = "default"

(* ----------------------- claims on the session manager ----------------- *)

\* latest.json exists and parses.
LatestParses == load_latest_session(persist_dir) # NoSession

\* C8: the session created by get_or_create_session is Initializer with no
\* parent if and only if latest.json is missing or unparseable, and
\* otherwise is Coding with the most recently ended session as its parent.
C8_ParentIsLastEnded ==
    current_session # NoSession =>
        /\ (current_session.mode = "Initializer"
                /\ current_session.parent_session_id = NoSessionId)
              <=> ~LatestParses
        /\ LatestParses =>
              /\ current_session.mode = "Coding"
              /\ current_session.parent_session_id = last_ended

\* C8, amended: the session created by get_or_create_session is Initializer
\* with no parent if and only if latest.json is missing or unparseable, and
\* otherwise is Coding with the session stored in latest.json as its parent,
\* which is the most recently ended session whose write of latest.json
\* succeeded.
C8_ParentIsLatestFile ==
    current_session # NoSession =>
        /\ (current_session.mode = "Initializer"
                /\ current_session.parent_session_id = NoSessionId)
              <=> ~LatestParses
        /\ LatestParses =>
              /\ current_session.mode = "Coding"
              /\ current_session.parent_session_id =
                     load_latest_session(persist_dir).id
              /\ current_session.parent_session_id = latest_writer

\* A Coding session was created after an end_session that failed before it
\* wrote latest.json: its parent is the session of latest.json, which is not
\* the most recently ended one.
C8_Witness ==
    /\ current_session.mode = "Coding"
    /\ current_session.parent_session_id = latest_writer
    /\ last_ended # latest_writer
    /\ sessionRet.op = "get_or_create_session"
    /\ sessionRet.session = current_session

\* The last operation was end_session(Some(notes)) of a current session and
\* its persist_session returned Ok.
EndedAndPersisted ==
    /\ sessionRet.op = "end_session"
    /\ sessionRet.session # NoSession
    /\ sessionRet.handoff_notes # <<>>
    /\ sessionRet.persisted

\* C20: after end_session(notes) of session S has persisted S, load_session
\* of S's id returns the session end_session returned, which is S with
\* handoff_notes = notes; load_latest_session returns the same session;
\* get_handoff_context returns the handoff generated from it, which holds
\* the notes; and the manager has no current session.
C20_PersistenceRoundTrip ==
    EndedAndPersisted =>
        LET notes == sessionRet.handoff_notes[1]
            loaded == load_session(persist_dir, last_ended)
            context == get_handoff_context(persist_dir)
        IN  /\ loaded # NoSession
            /\ loaded = sessionRet.session
            /\ loaded.id = last_ended
            /\ loaded.handoff_notes = notes
            /\ load_latest_session(persist_dir) = loaded
            /\ context.some
            /\ context.text = generate_handoff(loaded)
            /\ notes # "" => \E i \in DOMAIN context.text.notes :
                                 context.text.notes[i] = notes
            /\ current_session = NoSession

\* C20 witness: a Coding session was ended with the notes "continue X" and
\* persisted, and loads back with them.
C20_Witness ==
    /\ EndedAndPersisted
    /\ sessionRet.handoff_notes = <<"continue X">>
    /\ sessionRet.session.mode = "Coding"
    /\ load_session(persist_dir, last_ended).handoff_notes = "continue X"
    /\ current_session = NoSession

\* The ids of the sessions persisted in a directory: the <id>.json files
\* that parse.
Persisted(dir) ==
    {n \in DOMAIN dir.sessions :
        load_session_from_path(dir.sessions[n]) # NoSession}

CreatedAt(dir, n) == load_session_from_path(dir.sessions[n]).created_at

C22_PersistFailureNeverPrevents ==
    [][/\ (sessionRet'.op = "end_session" /\ current_session # NoSession) =>
            /\ current_session' = NoSession
            /\ sessionRet'.session # NoSession
            /\ sessionRet'.session.id = current_session.id
       /\ sessionRet'.op = "get_or_create_session" =>
            /\ sessionRet'.session # NoSession
            /\ current_session' = sessionRet'.session]_vars

\* C22 witness: after an end_session whose latest.json write failed, a
\* get_or_create_session has returned a new session.
C22_Witness ==
    /\ sessionRet.op = "get_or_create_session"
    /\ last_ended # NoSessionId
    /\ last_ended # latest_writer
    /\ sessionRet.session.id > last_ended
    /\ current_session = sessionRet.session

(* ------------------- claims on the MCP servers and manager ------------- *)

\* Nothing was sent on any transport by the last call.
NothingSent == \A n \in ManagerServerNames : sent[n] = <<>>

\* C17: a call that reaches a connected server with a tool name that is not
\* in the server's cached list has failed with ToolNotFound(name) and sent
\* nothing; with a cached name it has sent exactly one tools/call request
\* carrying the name and the arguments, and what it returns is what the
\* transport returned.
C17_ServerCallTool ==
    LET parts == splitn2(mop.name) IN
    (mop.op = "call_tool" /\ Len(parts) = 2 /\ is_connected(servers, parts[1])) =>
        IF parts[2] \notin servers[parts[1]].tools
        THEN /\ mop.pc = "returned"
             /\ mop.res = McpErr("ToolNotFound", parts[2])
             /\ NothingSent
        ELSE /\ sent[parts[1]] = <<ToolsCall(parts[2], mop.arguments)>>
             /\ (mop.pc = "returned" /\ mop.reply # NoResult) => mop.res = mop.reply
             /\ (mop.pc = "returned" /\ mop.reply = NoResult) =>
                   (mop.timed /\ mop.res = McpErr("Timeout", <<>>))

\* C17 witness: a call of a cached tool has returned the server's result,
\* one request sent.
C17_Witness ==
    /\ mop.op = "call_tool"
    /\ mop.pc = "returned"
    /\ mop.res = McpOk("result 2")
    /\ \E n \in ManagerServerNames :
          /\ Len(sent[n]) = 1
          /\ sent[n][1].name \in servers[n].tools
          /\ sent[n][1].arguments = mop.arguments

\* The positions of the '_' characters of a name.
Underscores(name) == {k \in DOMAIN name : name[k] = "_"}

\* C18: a call with a full name without '_' has failed with ToolNotFound;
\* otherwise, with p the part before the first '_' and t the part after
\* it: if p is not a connected server the call has failed with
\* NotConnected(p); if it is, nothing was sent to any other server and a
\* request sent to p carries the tool name t.  A call that failed before
\* sending anything has returned that error, not Timeout, with or without
\* a timeout.
C18_DispatchAtFirstUnderscore ==
    mop.op = "call_tool" =>
        IF Underscores(mop.name) = {}
        THEN /\ mop.pc = "returned"
             /\ mop.res.tag = "err"
             /\ mop.res.error = "ToolNotFound"
             /\ NothingSent
        ELSE LET k == CHOOSE i \in Underscores(mop.name) :
                         \A j \in Underscores(mop.name) : i <= j
                 p == SubSeq(mop.name, 1, k - 1)
                 t == SubSeq(mop.name, k + 1, Len(mop.name))
             IN  IF ~is_connected(servers, p)
                 THEN /\ mop.pc = "returned"
                      /\ mop.res = McpErr("NotConnected", p)
                      /\ NothingSent
                 ELSE /\ \A n \in ManagerServerNames \ {p} : sent[n] = <<>>
                      /\ \A i \in DOMAIN sent[p] : sent[p][i].name = t
                      /\ NothingSent =>
                            (mop.pc = "returned" /\ mop.res = McpErr("ToolNotFound", t))

\* C18 witness: a call under a timeout named "a_a_" while servers "a" and
\* "a_a" are both connected: the request went to "a" with tool name "a_",
\* and nothing went to "a_a".
C18_Witness ==
    /\ mop.op = "call_tool"
    /\ mop.timed
    /\ mop.name = <<"a", "_", "a", "_">>
    /\ is_connected(servers, <<"a", "_", "a">>)
    /\ Len(sent[<<"a">>]) = 1
    /\ sent[<<"a">>][1].name = <<"a", "_">>
    /\ sent[<<"a", "_", "a">>] = <<>>

C40_DisconnectAllLeavesNone ==
    mop.op = "disconnect_all" =>
        \A n \in ManagerServerNames : ~is_connected(servers, n)

\* The names of the entries of a tools array that are tools, in order.
RECURSIVE ToolsReturned(_)
ToolsReturned(entries) ==
    IF entries = <<>> THEN <<>>
    ELSE (IF Head(entries).named THEN <<Head(entries).name>> ELSE <<>>)
         \o ToolsReturned(Tail(entries))

ConstructionOrder == <<"initialize", "notifications/initialized", "tools/list">>

\* C30: the requests McpServer::new has issued are a prefix of initialize,
\* notifications/initialized, tools/list, one more than the replies it has
\* while it waits; it has failed exactly when initialize or tools/list
\* failed, then with that error and with the servers as before; whatever the
\* notification returned, tools/list was issued after it; and when it
\* succeeded, all three were issued, the cache holds the tools that
\* tools/list returned, and the record under the name has them.
C30_ConstructionSequence ==
    mnew.pc # "none" =>
        /\ mnew.issued = SubSeq(ConstructionOrder, 1, Len(mnew.issued))
        /\ Len(mnew.issued) >= 1
        /\ mnew.pc # "returned" =>
              /\ Len(mnew.replies) = Len(mnew.issued) - 1
              /\ mnew.pc = mnew.issued[Len(mnew.issued)]
              /\ servers = mnew.servers_before
        /\ mnew.pc = "returned" => Len(mnew.replies) = Len(mnew.issued)
        /\ Len(mnew.replies) >= 1 =>
              (mnew.replies[1].tag = "err" <=>
                  /\ mnew.pc = "returned"
                  /\ Len(mnew.issued) = 1
                  /\ mnew.res = mnew.replies[1]
                  /\ servers = mnew.servers_before)
        /\ Len(mnew.replies) >= 2 => Len(mnew.issued) = 3
        /\ Len(mnew.replies) = 3 =>
              IF mnew.replies[3].tag = "err"
              THEN /\ mnew.res = mnew.replies[3]
                   /\ servers = mnew.servers_before
              ELSE /\ mnew.res = McpOk("()")
                   /\ mnew.tools = ToolsReturned(mnew.replies[3].value.entries)
                   /\ servers =
                          [mnew.servers_before EXCEPT ![mnew.name] =
                              McpServer(mnew.transport,
                                        {mnew.tools[i] : i \in DOMAIN mnew.tools})]

\* C30 witness: the notification failed, tools/list returned two tools, and
\* the server is connected with both in its cache.
C30_Witness ==
    /\ mnew.pc = "returned"
    /\ mnew.res = McpOk("()")
    /\ mnew.replies[2].tag = "err"
    /\ Len(mnew.tools) = 2
    /\ mnew.tools[1] # mnew.tools[2]
    /\ is_connected(servers, mnew.name)
    /\ Cardinality(servers[mnew.name].tools) = 2

\* C35: every child that connect_stdio spawned and that still runs is the
\* child of a stdio server record of the manager, or of the server that a
\* connect in progress is constructing.
C35_NoChildLeaked ==
    \A n \in ManagerServerNames :
       children[n] = "running" =>
          \/ is_connected(servers, n) /\ servers[n].transport = "stdio"
          \/ /\ mnew.pc \notin {"none", "returned"}
             /\ mnew.name = n
             /\ mnew.transport = "stdio"

\* C31: once McpServer::new has sent notifications/initialized to a stdio
\* server that sends no response to it, new terminates.
C31_NewTerminates ==
    (mnew.pc = "notifications/initialized" /\ quiet = 2)
        ~> (mnew.pc = "returned")

(* ---------------------- claims on the context injector ----------------- *)

\* The text a message's content ends with after an append of a text.
Appended(old, new, text) ==
    /\ new.role = old.role
    /\ new.content.kind = old.content.kind
    /\ IF old.content.kind = "Text"
       THEN new.content.parts = <<old.content.parts[1] \o <<"\n\n">> \o text>>
       ELSE new.content.parts = old.content.parts \o <<text>>

\* The indices of the messages with a role.
WithRole(list, role) == {i \in DOMAIN list : list[i].role = role}

\* C26: after inject, if no output carries a system message the messages
\* are as before; otherwise, if there was a user message, the count is as
\* before, the last user message has the wrapped reminder appended and
\* every other message is as before; and if there was none, the messages
\* are the ones before followed by one system message holding the reminder.
C26_InjectFrame ==
    ctx_call.op = "inject" =>
        LET carried == {i \in DOMAIN ctx_call.outputs :
                           ctx_call.outputs[i].system_message # <<>>}
            users == WithRole(ctx_before, "user")
            reminder == wrap_system_reminder(
                            JoinBlankLine(system_messages(ctx_call.outputs)))
        IN  IF carried = {} THEN ctx_messages = ctx_before
            ELSE IF users # {}
            THEN /\ Len(ctx_messages) = Len(ctx_before)
                 /\ \A i \in DOMAIN ctx_before :
                       IF \A j \in users : j <= i
                       THEN (i \in users =>
                               Appended(ctx_before[i], ctx_messages[i], reminder))
                            /\ (i \notin users => ctx_messages[i] = ctx_before[i])
                       ELSE ctx_messages[i] = ctx_before[i]
            ELSE /\ Len(ctx_messages) = Len(ctx_before) + 1
                 /\ SubSeq(ctx_messages, 1, Len(ctx_before)) = ctx_before
                 /\ ctx_messages[Len(ctx_messages)] =
                        ChatMessage("system", TextContent(reminder))

\* C26 witness: two outputs carried a system message and the request had
\* two user messages: the second has grown, the first has not.
C26_Witness ==
    /\ ctx_call.op = "inject"
    /\ Len(system_messages(ctx_call.outputs)) = 2
    /\ Cardinality(WithRole(ctx_before, "user")) = 2
    /\ \E i, j \in WithRole(ctx_before, "user") :
          /\ i < j
          /\ ctx_messages[i] = ctx_before[i]
          /\ ctx_messages[j] # ctx_before[j]

\* C27: after inject_system_prefix, if the messages held a system message,
\* the count is as before and the first system message, at whatever index,
\* has the wrapped content appended; if they held none, a new system
\* message is at index 0 before the old messages.
C27_PrefixToFirstSystem ==
    ctx_call.op = "inject_system_prefix" =>
        LET systems == WithRole(ctx_before, "system")
            reminder == wrap_system_reminder(ctx_call.content)
        IN  IF systems # {}
            THEN /\ Len(ctx_messages) = Len(ctx_before)
                 /\ \A i \in systems :
                       (\A j \in systems : i <= j) =>
                           Appended(ctx_before[i], ctx_messages[i], reminder)
            ELSE ctx_messages =
                     <<ChatMessage("system", TextContent(reminder))>> \o ctx_before

\* C27, amended: after inject_system_prefix, if the message at index 0 was a
\* system message, the count is as before, that message has the wrapped
\* content appended and the others are as before; otherwise, also when a
\* later message is a system message, a new system message holding the
\* wrapped content is at index 0 before the old messages.
C27_PrefixToLeadingSystem ==
    ctx_call.op = "inject_system_prefix" =>
        LET reminder == wrap_system_reminder(ctx_call.content)
        IN  IF ctx_before # <<>> /\ ctx_before[1].role = "system"
            THEN /\ Len(ctx_messages) = Len(ctx_before)
                 /\ Appended(ctx_before[1], ctx_messages[1], reminder)
                 /\ \A i \in DOMAIN ctx_before :
                       i > 1 => ctx_messages[i] = ctx_before[i]
            ELSE ctx_messages =
                     <<ChatMessage("system", TextContent(reminder))>> \o ctx_before

\* C27 witness: the messages were a user message followed by a system
\* message, and the prefix was inserted as a new first message.
C27_Witness ==
    /\ ctx_call.op = "inject_system_prefix"
    /\ Len(ctx_before) >= 2
    /\ ctx_before[1].role = "user"
    /\ ctx_before[2].role = "system"
    /\ Len(ctx_messages) = Len(ctx_before) + 1
    /\ ctx_messages[1].role = "system"
    /\ ctx_messages[3] = ctx_before[2]

\* C28: after apply_prompt_modification, if some output carries a prompt
\* and there is a user message, the last user message has as its content
\* the prompt of the first such output and every other message is as
\* before; otherwise the messages are as before.
C28_FirstPromptWins ==
    ctx_call.op = "apply_prompt_modification" =>
        LET carrying == {i \in DOMAIN ctx_call.outputs :
                            ctx_call.outputs[i].prompt # <<>>}
            users == WithRole(ctx_before, "user")
        IN  IF carrying = {} \/ users = {} THEN ctx_messages = ctx_before
            ELSE LET first == CHOOSE i \in carrying : \A j \in carrying : i <= j
                     last == CHOOSE i \in users : \A j \in users : j <= i
                 IN  /\ Len(ctx_messages) = Len(ctx_before)
                     /\ ctx_messages[last] =
                            ChatMessage("user", TextContent(
                                <<ctx_call.outputs[first].prompt[1]>>))
                     /\ \A i \in DOMAIN ctx_before :
                           i # last => ctx_messages[i] = ctx_before[i]

\* C28 witness: the outputs carried the prompts p1 and then p2, and the
\* last of two user messages now reads p1.
C28_Witness ==
    /\ ctx_call.op = "apply_prompt_modification"
    /\ ctx_call.outputs = <<HookOutput(<<>>, <<"p1">>), HookOutput(<<>>, <<"p2">>)>>
    /\ Cardinality(WithRole(ctx_before, "user")) = 2
    /\ \E i \in WithRole(ctx_before, "user") :
          /\ ctx_messages[i].content = TextContent(<<"p1">>)
          /\ \A j \in WithRole(ctx_before, "user") : j <= i

====
